---- MODULE Spec2Model ----
(***************************************************************************)
(* Model of the background service worker of the Chrome/Gemini bridge      *)
(* (src/src/types/messages.ts, from line 76 on): the WebSocket connection  *)
(* manager, the reconnect loop, the router of backend messages, the        *)
(* browser-context request handlers, the per-tab console log buffer fed    *)
(* by the debugger events, and the listener of the side panel's messages.  *)
(*                                                                         *)
(* The service worker is single-threaded: every action below is one task   *)
(* of the event loop (a socket event handler, a timer callback, a runtime  *)
(* message listener, or the continuation of an async handler after one of  *)
(* its awaits), run to completion.                                         *)
(***************************************************************************)
EXTENDS Integers, Sequences, FiniteSets, TLC

(* ---------------------------------------------------------------------- *)
(* Bounds of the model                                                    *)
(* ---------------------------------------------------------------------- *)

\* WebSocket objects that can be alive (not yet closed) at the same time
MaxSockets == 2
\* pending setTimeout(connectToBackend, RECONNECT_DELAY) callbacks
MaxTimers == 2
\* terminal:input / terminal:resize envelopes the side panel submits
MaxMsgs == 1
\* requestIds of the browser:request envelopes the backend sends
MaxReq == 2
\* tabs of the browser
MaxTabs == 1
\* debugger events chrome.debugger.onEvent delivers in a run
MaxEvents == 2
\* liveness probes whose delayed status broadcast is pending
MaxPings == 1
\* calls of _sendToContentScript
MaxCalls == 3
\* elements of the page the selector of a modifyDom request matches
MaxElems == 3

(* ---------------------------------------------------------------------- *)
(* Program constants                                                      *)
(* ---------------------------------------------------------------------- *)

MAX_RECONNECT_ATTEMPTS == 10
MAX_LOGS_PER_TAB == 500

SocketIds == 1..MaxSockets
MsgIds == 1..MaxMsgs
ReqIds == 1..MaxReq

\* `socket = null`
NullSocket == 0

\* WebSocket.readyState; a CLOSED socket has delivered its close event and
\* delivers no further event, so its slot stands for "no such object"
ReadyStates == {"CONNECTING", "OPEN", "CLOSING", "CLOSED"}

TabIds == 1..MaxTabs
CallIds == 1..MaxCalls

VARIABLES
    socket,             \* let socket: WebSocket | null
    readyState,         \* readyState of every WebSocket object created
    reconnectAttempts,  \* let reconnectAttempts
    reconnectTimers,    \* pending setTimeout(connectToBackend, RECONNECT_DELAY)
    emitted,            \* envelopes broadcastToExtension sent in the last task
    uiMsg,              \* fate of each envelope the side panel submitted
    uiReply,            \* what sendResponse last answered the side panel
    sent,               \* envelopes socket.send() transmitted in the last task
    reqPc,              \* where the handler of each browser:request stands
    reqMsg,             \* the browser:request envelope the handler works on
    reqTab,             \* the tab getActiveTab returned to the handler
    reqPrims,           \* chrome API calls the handler has made so far
    attachedTabs,       \* const attachedTabs = new Set<number>()
    consoleLogs,        \* const consoleLogs = new Map<number, ConsoleLogEntry[]>()
    now,                \* Date.now(), in ticks: it advances with every debugger event
    delivered,          \* number of debugger events delivered so far
    lastEvent,          \* the debugger event delivered last, <<>> before the first
    appended,           \* per tab, the records appended to its ring since the ring
                        \* was last emptied, created or deleted (history)
    retained,           \* per tab, the records its ring held when its session was
                        \* last detached and that no read has returned yet (history)
    detachPc,           \* where detachDebuggerFromTab(tabId) stands
    closedTabs,         \* the tabs that have been closed
    pingTimers,         \* statuses of the pending setTimeout(broadcast, 100) of ping
    csCalls,            \* the promise and the timer of each _sendToContentScript call
    domEffect,          \* what the function modifyDomInTab injected last did to
                        \* the page: the elements it matched and those it modified
    reqSocket,          \* per browser:request in flight, the WebSocket whose
                        \* message event delivered it and whether that socket
                        \* has closed since (history)
    inbound,            \* the data of the WebSocket message socket.onmessage
                        \* handled last (history)
    backend             \* the backend server: whether it accepts connections, and
                        \* the sockets whose attempt began before it did

connVars == <<socket, readyState, reconnectAttempts, reconnectTimers>>
uiVars == <<uiMsg, uiReply>>
reqVars == <<reqPc, reqMsg, reqTab, reqPrims>>
logVars == <<attachedTabs, consoleLogs, now, delivered, lastEvent, appended,
            retained, detachPc, closedTabs>>
sideVars == <<pingTimers, csCalls>>
envVars == <<domEffect, reqSocket, inbound, backend>>
vars == <<socket, readyState, reconnectAttempts, reconnectTimers, emitted,
          uiMsg, uiReply, sent, reqPc, reqMsg, reqTab, reqPrims,
          attachedTabs, consoleLogs, now, delivered, lastEvent, appended,
          retained, detachPc, closedTabs, pingTimers, csCalls, domEffect, reqSocket, inbound,
          backend>>

(* ---------------------------------------------------------------------- *)
(* Envelopes                                                              *)
(* ---------------------------------------------------------------------- *)

ConnectionStatusMessage(status, message) ==
    [type |-> "connection:status", status |-> status, message |-> message]

NoMessage == "(none)"
SocketErrorText == "Failed to connect to backend server"
MaxAttemptsText == "Failed to connect after multiple attempts. Is the backend running?"

(* ---------------------------------------------------------------------- *)
(* Connection manager.  The functions of the source that call each other  *)
(* inside one task are operators on the record of the manager's state:    *)
(*   c.socket, c.readyState, c.reconnectAttempts, c.reconnectTimers,      *)
(*   c.emitted                                                            *)
(* ---------------------------------------------------------------------- *)

ConnState ==
    [socket |-> socket, readyState |-> readyState,
     reconnectAttempts |-> reconnectAttempts,
     reconnectTimers |-> reconnectTimers, emitted |-> <<>>]

\* socket?.readyState === WebSocket.OPEN
IsOpen(sock, rs) == sock # NullSocket /\ rs[sock] = "OPEN"

broadcastToExtension(c, message) ==
    [c EXCEPT !.emitted = Append(@, message)]

\* event.data of a WebSocket message: text JSON.parse rejects, or the text
\* of an envelope
NoInbound == [parses |-> FALSE, message |-> [type |-> "(none)", data |-> <<>>]]
Unparseable == [parses |-> FALSE, message |-> [type |-> "(text)", data |-> <<>>]]
Parsed(message) == [parses |-> TRUE, message |-> message]

\* the chunks of terminal output the backend sends
TerminalData == {"ls", "pwd"}
TerminalOutputMessage(data) == [type |-> "terminal:output", data |-> data]
\* types of envelopes the switch of handleBackendMessage has no case for
OtherTypes == {"terminal:input", "heartbeat"}

\* handleBackendMessage forwarding a terminal:output envelope twice
handleBackendMessage_OutputTwice(c, message) ==
    IF message.type = "terminal:output"
    THEN broadcastToExtension(broadcastToExtension(c, message), message)
    ELSE c

\* handleBackendMessage, for the envelopes that are no browser:request (the
\* case 'browser:request' is RequestArrives): the connection manager after
\* it
handleBackendMessage(c, message) ==
    IF message.type = "terminal:output"
    THEN broadcastToExtension(c, message)
    ELSE c

\* socket.onmessage broadcasting an error status when JSON.parse throws
onmessage_ErrorBroadcast(c, event) ==
    IF event.parses
    THEN handleBackendMessage(c, event.message)
    ELSE broadcastToExtension(c, [type |-> "connection:status", status |-> "error",
                                  message |-> "Error parsing message"])

\* socket.onmessage: JSON.parse, then handleBackendMessage; the catch logs
onmessage(c, event) ==
    IF event.parses THEN handleBackendMessage(c, event.message) ELSE c

\* scheduleReconnect without the test of the maximum
scheduleReconnect_Unbounded(c) ==
    [c EXCEPT !.reconnectAttempts = @ + 1, !.reconnectTimers = @ + 1]

\* scheduleReconnect setting the timer at the maximum as well
scheduleReconnect_TimerAtMaximum(c) ==
    IF c.reconnectAttempts < MAX_RECONNECT_ATTEMPTS
    THEN [c EXCEPT !.reconnectAttempts = @ + 1, !.reconnectTimers = @ + 1]
    ELSE [broadcastToExtension(c, ConnectionStatusMessage("error", MaxAttemptsText))
             EXCEPT !.reconnectTimers = @ + 1]

scheduleReconnect(c) ==
    IF c.reconnectAttempts < MAX_RECONNECT_ATTEMPTS
    THEN [c EXCEPT !.reconnectAttempts = @ + 1, !.reconnectTimers = @ + 1]
    ELSE broadcastToExtension(c, ConnectionStatusMessage("error", MaxAttemptsText))

\* the WebSocket object `new WebSocket(BACKEND_URL)` returns
FreeSockets(rs) == {s \in SocketIds : rs[s] = "CLOSED"}
NewSocket(rs) == CHOOSE s \in FreeSockets(rs) : \A t \in FreeSockets(rs) : s <= t

\* throws: `new WebSocket` raised an exception
connectToBackend(c, throws) ==
    IF IsOpen(c.socket, c.readyState)
    THEN c
    ELSE LET b == broadcastToExtension(c, ConnectionStatusMessage("connecting", NoMessage))
         IN IF throws
            THEN scheduleReconnect(b)
            ELSE [b EXCEPT !.socket = NewSocket(c.readyState),
                           !.readyState[NewSocket(c.readyState)] = "CONNECTING"]

onopen(c) ==
    broadcastToExtension([c EXCEPT !.reconnectAttempts = 0],
                         ConnectionStatusMessage("connected", NoMessage))

onerror(c) ==
    broadcastToExtension(c, ConnectionStatusMessage("error", SocketErrorText))

\* onclose forgetting to call scheduleReconnect
onclose_NoReconnect(c) ==
    broadcastToExtension([c EXCEPT !.socket = NullSocket],
                         ConnectionStatusMessage("disconnected", NoMessage))

onclose(c) ==
    scheduleReconnect(
        broadcastToExtension([c EXCEPT !.socket = NullSocket],
                             ConnectionStatusMessage("disconnected", NoMessage)))

\* sendToBackend testing only that there is a socket
sendToBackend_AnySocket(sock, rs) == sock # NullSocket

\* sendToBackend: the value it returns
sendToBackend(sock, rs) == IsOpen(sock, rs)

\* the task leaves the manager in state c
Commit(c) ==
    /\ c.reconnectTimers <= MaxTimers
    /\ socket' = c.socket
    /\ readyState' = c.readyState
    /\ reconnectAttempts' = c.reconnectAttempts
    /\ reconnectTimers' = c.reconnectTimers
    /\ emitted' = c.emitted

\* there is room for the WebSocket object connectToBackend(c, throws) creates
ConnectFits(c, throws) ==
    throws \/ IsOpen(c.socket, c.readyState) \/ FreeSockets(c.readyState) # {}


(* ---------------------------------------------------------------------- *)
(* Tabs and their addresses.  An address is the sequence of its           *)
(* characters, so that String.startsWith and String.split work on it as   *)
(* they do in the source.                                                 *)
(* ---------------------------------------------------------------------- *)

UrlHttps == <<"h","t","t","p","s",":","/","/","a",".","b","/">>
UrlChrome == <<"c","h","r","o","m","e",":","/","/","x">>
UrlChromeExtension ==
    <<"c","h","r","o","m","e","-","e","x","t","e","n","s","i","o","n",":","/","/","x">>
UrlEdge == <<"e","d","g","e",":","/","/","x">>
UrlAbout == <<"a","b","o","u","t",":","b","l","a","n","k">>
UrlDevtools == <<"d","e","v","t","o","o","l","s",":","/","/","x">>
\* tab.url is undefined: `tab.url || ''`
UrlNone == <<>>

Urls == {UrlHttps, UrlChrome, UrlChromeExtension, UrlEdge, UrlAbout,
         UrlDevtools, UrlNone}

\* chrome.tabs.query({active: true, currentWindow: true}) found no tab
NoTab == [id |-> 0, url |-> UrlNone]
TabSnapshots == [id : TabIds, url : Urls] \cup {NoTab}

\* url.startsWith(prefix)
StartsWith(url, prefix) ==
    /\ Len(url) >= Len(prefix)
    /\ SubSeq(url, 1, Len(prefix)) = prefix

\* url.split('/')[0]
RECURSIVE SplitFirst(_)
SplitFirst(url) ==
    IF url = <<>> \/ Head(url) = "/"
    THEN <<>>
    ELSE <<Head(url)>> \o SplitFirst(Tail(url))

RestrictedPrefixes ==
    { <<"c","h","r","o","m","e",":","/","/">>,
      <<"c","h","r","o","m","e","-","e","x","t","e","n","s","i","o","n",":","/","/">>,
      <<"e","d","g","e",":","/","/">>,
      <<"a","b","o","u","t",":">>,
      <<"d","e","v","t","o","o","l","s",":","/","/">> }

IsRestricted(url) == \E prefix \in RestrictedPrefixes : StartsWith(url, prefix)

\* getActiveTab: the tab it returns, or the Error it throws
getActiveTab(tab) ==
    IF tab.id = 0
    THEN [threw |-> TRUE, error |-> <<"No active tab found">>, tab |-> tab]
    ELSE IF IsRestricted(tab.url)
    THEN [threw |-> TRUE,
          error |-> <<"Cannot access restricted page: ", SplitFirst(tab.url), "//...">>,
          tab |-> tab]
    ELSE [threw |-> FALSE, error |-> <<>>, tab |-> tab]

(* ---------------------------------------------------------------------- *)
(* Browser-context requests                                               *)
(* ---------------------------------------------------------------------- *)

KnownActions == {"getDom", "getSelection", "getUrl", "screenshot",
                 "executeScript", "modifyDom", "getConsoleLogs"}
\* an action the switch of handleBrowserContextRequest has no case for
UnknownActions == {"click"}
Actions == KnownActions \cup UnknownActions

\* the cases of the switch of the function modifyDomInTab injects
DomActions == {"setHTML", "setOuterHTML", "setText", "setAttribute",
               "removeAttribute", "addClass", "removeClass", "remove",
               "insertBefore", "insertAfter"}
\* params.action is absent / is an action the switch has no case for
NoAction == "(none)"
UnknownDomActions == {"toggleClass"}

\* request.params, as far as the handlers look at it: which of script,
\* selector, value and attributeName are present (truthy), action and all
\* of modifyDom, and level and clear of getConsoleLogs
NoLevel == "(none)"
DefaultParams ==
    [script |-> TRUE, selector |-> TRUE, action |-> "setText",
     value |-> TRUE, attributeName |-> TRUE, all |-> FALSE,
     level |-> NoLevel, clear |-> FALSE]
\* selector, action, value, attributeName and all of a modifyDom request
DomParams ==
    {[DefaultParams EXCEPT !.selector = s, !.action = a, !.value = v,
                           !.attributeName = n, !.all = all] :
        s \in BOOLEAN, a \in DomActions \cup UnknownDomActions \cup {NoAction},
        v \in BOOLEAN, n \in BOOLEAN, all \in BOOLEAN}
\* level and clear of a getConsoleLogs request
LogParams ==
    {[DefaultParams EXCEPT !.level = l, !.clear = b] :
        l \in {NoLevel, "all", "error", "warning", "info"}, b \in BOOLEAN}

ParamsOf(action) ==
    CASE action = "executeScript" ->
            {[DefaultParams EXCEPT !.script = b] : b \in BOOLEAN}
      [] action = "modifyDom" -> DomParams
      [] action = "getConsoleLogs" -> LogParams
      [] OTHER -> {DefaultParams}

\* the params of the requests sent to exercise the router, which does not
\* look at level and clear
RouterParamsOf(action) ==
    CASE action = "getConsoleLogs" -> {DefaultParams}
      [] action = "modifyDom" ->
            {[DefaultParams EXCEPT !.selector = b, !.action = a] :
                b \in BOOLEAN, a \in {NoAction, "setText"}}
      [] OTHER -> ParamsOf(action)

\* the active tab as far as the first task of the handler depends on it:
\* only captureActiveTabScreenshot calls a primitive on the active tab
\* before its first await
ArrivalTabs(action) ==
    IF action = "screenshot" THEN TabSnapshots ELSE {NoTab}

BrowserContextRequest(requestId, action, params) ==
    [type |-> "browser:request", requestId |-> requestId, action |-> action,
     params |-> params]

NoRequest == BrowserContextRequest(0, "(none)", DefaultParams)

\* `data` of a response that has none; the data of every response is a
\* record
NoData == [none |-> TRUE]
NoError == <<>>

\* the envelope built with the requestId of request 1 whatever the request
BrowserContextResponse_SharedRequestId(requestId, success, data, error) ==
    [type |-> "browser:response", requestId |-> 1,
     success |-> success, data |-> data, error |-> error]

BrowserContextResponse(requestId, success, data, error) ==
    [type |-> "browser:response", requestId |-> requestId,
     success |-> success, data |-> data, error |-> error]

\* the await points of the handlers
AwaitPcs == {"awaitTab", "awaitCapture", "awaitScript", "awaitModify",
             "awaitAttach", "awaitLogEnable", "awaitRuntimeEnable", "awaitSettle"}

\* how the promise a handler awaits settles
Settlements == {"ok", "reject", "error"}

\* What a handler does between two awaits: it returns a response, throws,
\* or suspends at the next await after invoking a primitive.  L is the
\* debug-session state [attachedTabs, consoleLogs] it leaves.
Return(response, L) ==
    [kind |-> "return", response |-> response, error |-> NoError,
     pc |-> "done", prim |-> "(none)", L |-> L]
Throw(error, L) ==
    [kind |-> "throw", response |-> <<>>, error |-> error,
     pc |-> "done", prim |-> "(none)", L |-> L]
Await(pc, prim, L) ==
    [kind |-> "await", response |-> <<>>, error |-> NoError,
     pc |-> pc, prim |-> prim, L |-> L]

Failure(request, error) ==
    BrowserContextResponse(request.requestId, FALSE, NoData, error)
Success(request, data) ==
    BrowserContextResponse(request.requestId, TRUE, data, NoError)

getActiveTabDom(request, pc, tab, settled, L) ==
    IF pc = "start" THEN Await("awaitTab", "tabs.query", L)
    ELSE IF pc = "awaitTab"
    THEN IF getActiveTab(tab).threw
         THEN Throw(getActiveTab(tab).error, L)
         ELSE Await("awaitScript", "scripting.executeScript", L)
    ELSE IF settled = "reject" THEN Throw(<<"executeScript rejected">>, L)
    ELSE IF settled = "error"
    THEN Return(Failure(request, <<"Element not found: ", "selector">>), L)
    ELSE Return(Success(request, [html |-> "dom"]), L)

getActiveTabSelection(request, pc, tab, settled, L) ==
    IF pc = "start" THEN Await("awaitTab", "tabs.query", L)
    ELSE IF pc = "awaitTab"
    THEN IF getActiveTab(tab).threw
         THEN Throw(getActiveTab(tab).error, L)
         ELSE Await("awaitScript", "scripting.executeScript", L)
    ELSE IF settled = "reject" THEN Throw(<<"executeScript rejected">>, L)
    ELSE Return(Success(request, [text |-> "selection"]), L)

getActiveTabUrl(request, pc, tab, settled, L) ==
    IF pc = "start" THEN Await("awaitTab", "tabs.query", L)
    ELSE IF getActiveTab(tab).threw
    THEN Throw(getActiveTab(tab).error, L)
    ELSE Return(Success(request, tab), L)

captureActiveTabScreenshot(request, pc, tab, settled, L) ==
    IF pc = "start" THEN Await("awaitCapture", "tabs.captureVisibleTab", L)
    ELSE IF settled = "ok"
    THEN Return(Success(request, [dataUrl |-> "png"]), L)
    ELSE Return(Failure(request, <<"captureVisibleTab rejected">>), L)

executeScriptInTab(request, pc, tab, settled, L) ==
    IF pc = "start" THEN Await("awaitTab", "tabs.query", L)
    ELSE IF pc = "awaitTab"
    THEN IF getActiveTab(tab).threw
         THEN Throw(getActiveTab(tab).error, L)
         ELSE IF ~request.params.script
         THEN Return(Failure(request, <<"No script provided">>), L)
         ELSE Await("awaitScript", "scripting.executeScript", L)
    ELSE IF settled = "reject"
    THEN Return(Failure(request, <<"executeScript rejected">>), L)
    ELSE Return(Success(request, [success |-> TRUE]), L)

\* what the injected function did to the page: whether it ran, the number
\* of elements the selector matches and the elements modified (the i-th
\* match is i)
NoEffect == [ran |-> FALSE, matched |-> 0, modified |-> {}]

\* the selector is no valid selector; no DOM operation raises an exception
InvalidSelector == 0
NoThrow == MaxElems + 1

DomFailure(error, modified) ==
    [result |-> [success |-> FALSE, error |-> error, modifiedCount |-> 0,
                 message |-> <<>>],
     modified |-> modified]

\* the for loop of the injected function over the elements left, with
\* modifiedCount and the elements modified so far; the DOM operation on
\* element throwsAt raises an exception
RECURSIVE ModifyLoop(_, _, _, _, _)
ModifyLoop(params, elements, throwsAt, modifiedCount, modified) ==
    IF elements = <<>>
    THEN [result |-> [success |-> TRUE, error |-> NoError,
                      modifiedCount |-> modifiedCount,
                      message |-> <<"Modified ", modifiedCount,
                                    " element(s) using ", params.action>>],
          modified |-> modified]
    ELSE LET element == Head(elements)
             action == params.action
         IN IF action \in {"setAttribute", "removeAttribute"} /\ ~params.attributeName
            THEN DomFailure(<<"attributeName required for ", action, " action">>,
                            modified)
            ELSE IF action \in {"addClass", "removeClass"} /\ ~params.value
            THEN DomFailure(<<"value (class name) required for ", action, " action">>,
                            modified)
            ELSE IF action \in {"insertBefore", "insertAfter"} /\ ~params.value
            THEN DomFailure(<<"value (HTML content) required for ", action, " action">>,
                            modified)
            ELSE IF action \notin DomActions
            THEN DomFailure(<<"Unknown action: ", action>>, modified)
            ELSE IF throwsAt = element
            THEN DomFailure(<<"DOMException">>, modified)
            ELSE ModifyLoop(params, Tail(elements), throwsAt,
                            modifiedCount + 1, modified \cup {element})

\* the injected function using querySelectorAll whatever `all` is
modifyDomFunc_AllMatches(params, matches, throwsAt) ==
    IF throwsAt = InvalidSelector
    THEN DomFailure(<<"SyntaxError">>, {})
    ELSE IF matches = 0
    THEN DomFailure(<<"No elements found matching: ", "selector">>, {})
    ELSE ModifyLoop(params, [i \in 1..matches |-> i], throwsAt, 0, {})

\* the function modifyDomInTab injects, run in a page where the selector
\* matches `matches` elements
modifyDomFunc(params, matches, throwsAt) ==
    IF throwsAt = InvalidSelector
    THEN DomFailure(<<"SyntaxError">>, {})
    ELSE LET elements == IF params.all
                         THEN [i \in 1..matches |-> i]
                         ELSE IF matches > 0 THEN <<1>> ELSE <<>>
         IN IF elements = <<>>
            THEN DomFailure(<<"No elements found matching: ", "selector">>, {})
            ELSE ModifyLoop(params, elements, throwsAt, 0, {})

\* how chrome.scripting.executeScript of modifyDomInTab settles: it
\* resolves with the result of the function, rejects, or resolves without
\* a result
ScriptResolved(result) == [kind |-> "ok", result |-> result]
ScriptRejected == [kind |-> "reject", result |-> DomFailure(<<>>, {}).result]
ScriptNoResult == [kind |-> "error", result |-> DomFailure(<<>>, {}).result]

modifyDomInTab(request, pc, tab, settled, L) ==
    IF pc = "start" THEN Await("awaitTab", "tabs.query", L)
    ELSE IF pc = "awaitTab"
    THEN IF getActiveTab(tab).threw
         THEN Throw(getActiveTab(tab).error, L)
         ELSE IF ~request.params.selector
         THEN Return(Failure(request, <<"No selector provided">>), L)
         ELSE IF request.params.action = NoAction
         THEN Return(Failure(request, <<"No action provided">>), L)
         ELSE Await("awaitModify", "scripting.executeScript", L)
    ELSE IF settled.kind = "reject"
    THEN Return(Failure(request, <<"executeScript rejected">>), L)
    ELSE IF settled.kind = "error"
    THEN Return(Failure(request, <<"DOM modification failed">>), L)
    ELSE IF ~settled.result.success
    THEN Return(Failure(request, settled.result.error), L)
    ELSE Return(Success(request, [modifiedCount |-> settled.result.modifiedCount,
                                  message |-> settled.result.message]), L)

\* Map.set(key, value) and `Map.get(key) || []`
MapSet(map, key, value) ==
    [k \in DOMAIN map \cup {key} |-> IF k = key THEN value ELSE map[k]]
MapGetOrEmpty(map, key) == IF key \in DOMAIN map THEN map[key] ELSE <<>>

\* a levelMap whose info group lacks 'log'
LevelGroup_InfoWithoutLog(level) ==
    CASE level = "error" -> {"error"}
      [] level = "warning" -> {"warning"}
      [] level = "info" -> {"info"}
      [] OTHER -> {}

\* levelMap[params.level] || []
LevelGroup(level) ==
    CASE level = "error" -> {"error"}
      [] level = "warning" -> {"warning"}
      [] level = "info" -> {"info", "log"}
      [] OTHER -> {}

\* a read that clears the ring before it reads it
ReadConsoleLogs_ClearBeforeRead(request, tab, L) ==
    LET L2 == IF request.params.clear
              THEN [L EXCEPT !.consoleLogs = MapSet(@, tab.id, <<>>)]
              ELSE L
        all == MapGetOrEmpty(L2.consoleLogs, tab.id)
        level == request.params.level
        logs == IF level # NoLevel /\ level # "all"
                THEN SelectSeq(all, LAMBDA log : log.level \in LevelGroup(level))
                ELSE all
    IN Return(Success(request,
                      [logs |-> logs, tabId |-> tab.id, url |-> tab.url,
                       isCapturing |-> tab.id \in L2.attachedTabs]), L2)

\* the part of getConsoleLogs after the session is established
ReadConsoleLogs(request, tab, L) ==
    LET all == MapGetOrEmpty(L.consoleLogs, tab.id)
        level == request.params.level
        logs == IF level # NoLevel /\ level # "all"
                THEN SelectSeq(all, LAMBDA log : log.level \in LevelGroup(level))
                ELSE all
        L2 == IF request.params.clear
              THEN [L EXCEPT !.consoleLogs = MapSet(@, tab.id, <<>>)]
              ELSE L
    IN Return(Success(request,
                      [logs |-> logs, tabId |-> tab.id, url |-> tab.url,
                       isCapturing |-> tab.id \in L2.attachedTabs]), L2)

\* an attach that adds the tab to attachedTabs and creates no ring
attachDebuggerToTab_NoRing(tabId, pc, settled, L) ==
    IF pc = "start"
    THEN IF tabId \in L.attachedTabs
         THEN Return(<<>>, L)
         ELSE Await("awaitAttach", "debugger.attach", L)
    ELSE IF settled # "ok"
    THEN Throw(<<"debugger rejected">>, L)
    ELSE IF pc = "awaitAttach"
    THEN Await("awaitLogEnable", "debugger.sendCommand",
               [L EXCEPT !.attachedTabs = @ \cup {tabId}])
    ELSE IF pc = "awaitLogEnable"
    THEN Await("awaitRuntimeEnable", "debugger.sendCommand", L)
    ELSE Return(<<>>, L)

\* attachDebuggerToTab, from the await at pc on; it returns (pc = "done")
\* or throws
attachDebuggerToTab(tabId, pc, settled, L) ==
    IF pc = "start"
    THEN IF tabId \in L.attachedTabs
         THEN Return(<<>>, L)
         ELSE Await("awaitAttach", "debugger.attach", L)
    ELSE IF settled # "ok"
    THEN Throw(<<"debugger rejected">>, L)
    ELSE IF pc = "awaitAttach"
    THEN Await("awaitLogEnable", "debugger.sendCommand",
               [L EXCEPT !.attachedTabs = @ \cup {tabId},
                         !.consoleLogs = MapSet(@, tabId, <<>>)])
    ELSE IF pc = "awaitLogEnable"
    THEN Await("awaitRuntimeEnable", "debugger.sendCommand", L)
    ELSE Return(<<>>, L)

\* a getConsoleLogs that reads the ring when the session could not be
\* established
getConsoleLogs_AttachFailureIgnored(request, pc, tab, settled, L) ==
    IF pc = "start" THEN Await("awaitTab", "tabs.query", L)
    ELSE IF pc = "awaitTab" /\ getActiveTab(tab).threw
    THEN Throw(getActiveTab(tab).error, L)
    ELSE IF pc = "awaitTab" /\ tab.id \in L.attachedTabs
    THEN ReadConsoleLogs(request, tab, L)
    ELSE IF pc = "awaitSettle"
    THEN ReadConsoleLogs(request, tab, L)
    ELSE LET a == attachDebuggerToTab(
                      tab.id, IF pc = "awaitTab" THEN "start" ELSE pc, settled, L)
         IN IF a.kind = "throw"
            THEN ReadConsoleLogs(request, tab, a.L)
            ELSE IF a.kind = "return"
            THEN Await("awaitSettle", "setTimeout", a.L)
            ELSE a

getConsoleLogs(request, pc, tab, settled, L) ==
    IF pc = "start" THEN Await("awaitTab", "tabs.query", L)
    ELSE IF pc = "awaitTab" /\ getActiveTab(tab).threw
    THEN Throw(getActiveTab(tab).error, L)
    ELSE IF pc = "awaitTab" /\ tab.id \in L.attachedTabs
    THEN ReadConsoleLogs(request, tab, L)
    ELSE IF pc = "awaitSettle"
    THEN ReadConsoleLogs(request, tab, L)
    ELSE LET a == attachDebuggerToTab(
                      tab.id, IF pc = "awaitTab" THEN "start" ELSE pc, settled, L)
         IN IF a.kind = "throw"
            THEN Return(Failure(request, <<"Failed to attach debugger: ", a.error>>), a.L)
            ELSE IF a.kind = "return"
            THEN Await("awaitSettle", "setTimeout", a.L)
            ELSE a

\* the switch of handleBrowserContextRequest: the handler of the action,
\* run from pc
DispatchAction(request, pc, tab, settled, L) ==
    LET action == request.action
    IN CASE action = "getDom" -> getActiveTabDom(request, pc, tab, settled, L)
         [] action = "getSelection" -> getActiveTabSelection(request, pc, tab, settled, L)
         [] action = "getUrl" -> getActiveTabUrl(request, pc, tab, settled, L)
         [] action = "screenshot" -> captureActiveTabScreenshot(request, pc, tab, settled, L)
         [] action = "executeScript" -> executeScriptInTab(request, pc, tab, settled, L)
         [] action = "modifyDom" -> modifyDomInTab(request, pc, tab, settled, L)
         [] action = "getConsoleLogs" -> getConsoleLogs(request, pc, tab, settled, L)
         [] OTHER -> Return(Failure(request, <<"Unknown action: ", action>>), L)

\* handleBrowserContextRequest without its catch
handleBrowserContextRequest_NoCatch(request, pc, tab, settled, L) ==
    DispatchAction(request, pc, tab, settled, L)

\* handleBrowserContextRequest up to its sendToBackend: the try block and
\* the catch that turns an exception into a failure response
handleBrowserContextRequest(request, pc, tab, settled, L) ==
    LET o == DispatchAction(request, pc, tab, settled, L)
    IN IF o.kind = "throw" THEN Return(Failure(request, o.error), o.L) ELSE o

LogState == [attachedTabs |-> attachedTabs, consoleLogs |-> consoleLogs]

\* the outcome of a handler's task is the success response of getConsoleLogs
ReturnsLogs(request, o) ==
    /\ request.action = "getConsoleLogs"
    /\ o.kind = "return"
    /\ o.response.success

\* no WebSocket: the request is not in flight
NoOrigin == [socket |-> NullSocket, closed |-> FALSE]

\* a continuation of the handler of request r keeps the record of the
\* socket of r until the handler ends
OriginKept(r) ==
    reqSocket' = [reqSocket EXCEPT ![r] =
                     IF reqPc'[r] = "idle" THEN NoOrigin ELSE @]

\* One task of the handler of request r: it ran to outcome o.  A response is
\* handed to sendToBackend, which transmits it on `socket` if that is open;
\* the handler is then finished and leaves no state behind.  Of the tab
\* getActiveTab returned, only getConsoleLogs uses anything after its next
\* await.
HandlerTask(r, request, tab, o) ==
    /\ attachedTabs' = o.L.attachedTabs
    /\ consoleLogs' = o.L.consoleLogs
    /\ appended' = [t \in TabIds |->
                       IF MapGetOrEmpty(o.L.consoleLogs, t) = <<>>
                       THEN <<>> ELSE appended[t]]
    /\ retained' = IF ReturnsLogs(request, o)
                   THEN [retained EXCEPT ![o.response.data.tabId] = <<>>]
                   ELSE retained
    /\ UNCHANGED <<now, delivered, lastEvent, detachPc, closedTabs>>
    /\ IF o.kind = "await"
       THEN /\ reqPc' = [reqPc EXCEPT ![r] = o.pc]
            /\ reqMsg' = [reqMsg EXCEPT ![r] = request]
            /\ reqTab' = [reqTab EXCEPT ![r] =
                             IF request.action = "getConsoleLogs" THEN tab ELSE NoTab]
            /\ reqPrims' = [reqPrims EXCEPT ![r] = @ \cup {o.prim}]
            /\ sent' = <<>>
       ELSE /\ reqPc' = [reqPc EXCEPT ![r] = "idle"]
            /\ reqMsg' = [reqMsg EXCEPT ![r] = NoRequest]
            /\ reqTab' = [reqTab EXCEPT ![r] = NoTab]
            /\ reqPrims' = [reqPrims EXCEPT ![r] = {}]
            /\ sent' = IF o.kind = "return" /\ sendToBackend(socket, readyState)
                       THEN <<[via |-> socket, envelope |-> o.response]>>
                       ELSE <<>>

(* ---------------------------------------------------------------------- *)
(* Console log buffer: the listeners of chrome.debugger.onEvent,          *)
(* chrome.debugger.onDetach and chrome.tabs.onRemoved                     *)
(* ---------------------------------------------------------------------- *)

\* source.tabId of an event that comes from no tab
NoTabId == 0

\* the debugger events, as far as the listener looks at them: the method
\* and, in kind, entry.level of Log.entryAdded or type of
\* Runtime.consoleAPICalled
DebuggerEvents ==
    {[method |-> "Log.entryAdded", kind |-> k] : k \in {"warning"}}
    \cup {[method |-> "Runtime.consoleAPICalled", kind |-> k] :
            k \in {"log", "info", "warn", "debug", "trace"}}
    \cup {[method |-> "Runtime.exceptionThrown", kind |-> "(none)"],
          [method |-> "Network.requestWillBeSent", kind |-> "(none)"]}

\* levelMap[consoleEvent.type] || 'log' of the onEvent listener
ConsoleLevel(type) ==
    CASE type = "log" -> "log"
      [] type = "info" -> "info"
      [] type = "warn" -> "warning"
      [] type = "warning" -> "warning"
      [] type = "error" -> "error"
      [] type = "debug" -> "debug"
      [] OTHER -> "log"

\* a ConsoleLogEntry, as far as the buffer looks at it
ConsoleLogEntry(level, timestamp) == [level |-> level, timestamp |-> timestamp]

\* the entry the listener builds for an event, <<>> for `entry = null`
EntryOf(event, timestamp) ==
    CASE event.method = "Log.entryAdded" ->
            <<ConsoleLogEntry(event.kind, timestamp)>>
      [] event.method = "Runtime.consoleAPICalled" ->
            <<ConsoleLogEntry(ConsoleLevel(event.kind), timestamp)>>
      [] event.method = "Runtime.exceptionThrown" ->
            <<ConsoleLogEntry("error", timestamp)>>
      [] OTHER -> <<>>

\* logs.splice(0, deleteCount): the array without its first deleteCount
\* elements
Splice0(logs, deleteCount) == SubSeq(logs, deleteCount + 1, Len(logs))

\* a trim that drops the newest records instead of the oldest
PushAndTrim_DropsNewest(logs, entry) ==
    LET pushed == Append(logs, entry)
    IN IF Len(pushed) > MAX_LOGS_PER_TAB
       THEN SubSeq(pushed, 1, MAX_LOGS_PER_TAB)
       ELSE pushed

\* logs.push(entry) and the trim that follows it
PushAndTrim(logs, entry) ==
    LET pushed == Append(logs, entry)
    IN IF Len(pushed) > MAX_LOGS_PER_TAB
       THEN Splice0(pushed, Len(pushed) - MAX_LOGS_PER_TAB)
       ELSE pushed

\* a listener that does not test attachedTabs
onEvent_NoSessionTest(L, tabId, event, timestamp) ==
    IF tabId = NoTabId \/ EntryOf(event, timestamp) = <<>>
    THEN L
    ELSE [L EXCEPT !.consoleLogs =
             MapSet(@, tabId,
                    PushAndTrim(MapGetOrEmpty(@, tabId), EntryOf(event, timestamp)[1]))]

\* the chrome.debugger.onEvent listener
onEvent(L, tabId, event, timestamp) ==
    IF tabId = NoTabId \/ tabId \notin L.attachedTabs
    THEN L
    ELSE IF EntryOf(event, timestamp) = <<>>
    THEN L
    ELSE [L EXCEPT !.consoleLogs =
             MapSet(@, tabId,
                    PushAndTrim(MapGetOrEmpty(@, tabId), EntryOf(event, timestamp)[1]))]

\* Map.delete(key)
MapDelete(map, key) == [k \in DOMAIN map \ {key} |-> map[k]]

(* ---------------------------------------------------------------------- *)
(* _sendToContentScript: the promise it returns, its 10 s timer and the   *)
(* callback of chrome.tabs.sendMessage                                    *)
(* ---------------------------------------------------------------------- *)

\* a call that has not been made
NoCall == [promise |-> "none", value |-> <<>>, timer |-> "none", callback |-> "none"]

TimeoutText == "Content script response timeout"
LastErrorText == "Could not establish connection. Receiving end does not exist."

\* resolve(value) and reject(value) of the promise: the first one settles
\* it, a later one does nothing
PromiseSettle(call, promise, value) ==
    IF call.promise = "pending"
    THEN [call EXCEPT !.promise = promise, !.value = value]
    ELSE call

\* the executor of `new Promise`: the timer is armed and sendMessage is
\* called
sendToContentScript(call) ==
    [call EXCEPT !.promise = "pending", !.timer = "armed", !.callback = "pending"]

\* the callback of the setTimeout(..., 10000)
onContentScriptTimeout(call) ==
    PromiseSettle([call EXCEPT !.timer = "fired"], "rejected", [error |-> TimeoutText])

\* clearTimeout(timeout)
clearTimeout(call) ==
    IF call.timer = "armed" THEN [call EXCEPT !.timer = "cleared"] ELSE call

\* a callback that leaves the timer armed
onContentScriptResponse_NoClearTimeout(call, lastError, response) ==
    LET c1 == [call EXCEPT !.callback = "done"]
    IN IF lastError
       THEN PromiseSettle(c1, "rejected", [error |-> LastErrorText])
       ELSE PromiseSettle(c1, "resolved", [response |-> response])

\* the callback of chrome.tabs.sendMessage
onContentScriptResponse(call, lastError, response) ==
    LET c1 == clearTimeout([call EXCEPT !.callback = "done"])
    IN IF lastError
       THEN PromiseSettle(c1, "rejected", [error |-> LastErrorText])
       ELSE PromiseSettle(c1, "resolved", [response |-> response])

\* ContentScriptResponse values
ContentScriptResponses == {[success |-> TRUE], [success |-> FALSE]}

(* ---------------------------------------------------------------------- *)
(* Initial state: the service worker script has run to its end, which     *)
(* calls connectToBackend() once (line 898)                               *)
(* ---------------------------------------------------------------------- *)

Blank ==
    [socket |-> NullSocket, readyState |-> [s \in SocketIds |-> "CLOSED"],
     reconnectAttempts |-> 0, reconnectTimers |-> 0, emitted |-> <<>>]

Init ==
    /\ \E throws \in BOOLEAN :
          LET c == connectToBackend(Blank, throws)
          IN /\ socket = c.socket
             /\ readyState = c.readyState
             /\ reconnectAttempts = c.reconnectAttempts
             /\ reconnectTimers = c.reconnectTimers
             /\ emitted = c.emitted
    /\ uiMsg = [m \in MsgIds |-> "unsent"]
    /\ uiReply = <<>>
    /\ sent = <<>>
    /\ reqPc = [r \in ReqIds |-> "idle"]
    /\ reqMsg = [r \in ReqIds |-> NoRequest]
    /\ reqTab = [r \in ReqIds |-> NoTab]
    /\ reqPrims = [r \in ReqIds |-> {}]
    /\ attachedTabs = {}
    /\ consoleLogs = <<>>
    /\ now = 0
    /\ delivered = 0
    /\ lastEvent = <<>>
    /\ appended = [t \in TabIds |-> <<>>]
    /\ retained = [t \in TabIds |-> <<>>]
    /\ detachPc = [t \in TabIds |-> "idle"]
    /\ closedTabs = {}
    /\ pingTimers = <<>>
    /\ csCalls = [c \in CallIds |-> NoCall]
    /\ domEffect = NoEffect
    /\ inbound = NoInbound
    /\ reqSocket = [r \in ReqIds |-> NoOrigin]
    /\ backend = [up |-> FALSE, pending |-> {}]

(* ---------------------------------------------------------------------- *)
(* Socket events                                                          *)
(* ---------------------------------------------------------------------- *)

\* the connection is established: socket.onopen
SocketOpen(s) ==
    /\ readyState[s] = "CONNECTING"
    /\ Commit(onopen([ConnState EXCEPT !.readyState[s] = "OPEN"]))
    /\ sent' = <<>>
    /\ uiReply' = <<>>
    /\ UNCHANGED <<envVars, uiMsg, reqVars, logVars, sideVars>>

\* the closing handshake starts: readyState becomes CLOSING, no handler runs
SocketClosing(s) ==
    /\ readyState[s] = "OPEN"
    /\ Commit([ConnState EXCEPT !.readyState[s] = "CLOSING"])
    /\ sent' = <<>>
    /\ uiReply' = <<>>
    /\ UNCHANGED <<envVars, uiMsg, reqVars, logVars, sideVars>>

\* the connection is closed or could not be established: socket.onerror
\* (when the connection failed) followed by socket.onclose
SocketClose(s, failed) ==
    /\ readyState[s] \in {"CONNECTING", "OPEN", "CLOSING"}
    /\ readyState[s] = "CONNECTING" => failed
    /\ LET c0 == [ConnState EXCEPT !.readyState[s] = "CLOSED"]
           c1 == IF failed THEN onerror(c0) ELSE c0
       IN Commit(onclose(c1))
    /\ sent' = <<>>
    /\ uiReply' = <<>>
    /\ backend' = [backend EXCEPT !.pending = @ \ {s}]
    /\ reqSocket' = [r \in ReqIds |->
                        IF reqSocket[r].socket = s
                        THEN [reqSocket[r] EXCEPT !.closed = TRUE]
                        ELSE reqSocket[r]]
    /\ UNCHANGED <<domEffect, inbound, uiMsg, reqVars, logVars, sideVars>>

\* socket.onmessage with a browser:request: handleBackendMessage awaits
\* handleBrowserContextRequest, which runs up to its first await.  r is the
\* requestId, which no request in flight has, and tab the active tab of the
\* browser at that moment.
RequestArrives(s, r, action, params, tab) ==
    /\ readyState[s] = "OPEN"
    /\ reqPc[r] = "idle"
    /\ tab \in ArrivalTabs(action)
    /\ LET request == BrowserContextRequest(r, action, params)
       IN HandlerTask(r, request, NoTab,
                      handleBrowserContextRequest(request, "start", tab, "ok", LogState))
    /\ inbound' = Parsed([type |-> "browser:request", data |-> NoData])
    /\ reqSocket' = [reqSocket EXCEPT ![r] =
                        IF reqPc'[r] = "idle" THEN NoOrigin
                        ELSE [socket |-> s, closed |-> FALSE]]
    /\ emitted' = <<>>
    /\ uiReply' = <<>>
    /\ domEffect' = NoEffect
    /\ UNCHANGED <<backend, connVars, uiMsg, sideVars>>

\* socket.onmessage with a terminal:output envelope
TerminalOutput(s, data) ==
    /\ readyState[s] = "OPEN"
    /\ inbound' = Parsed(TerminalOutputMessage(data))
    /\ Commit(onmessage(ConnState, inbound'))
    /\ sent' = <<>>
    /\ uiReply' = <<>>
    /\ UNCHANGED <<domEffect, reqSocket, backend, uiMsg, reqVars, logVars, sideVars>>

\* socket.onmessage with data JSON.parse rejects, or with an envelope of
\* another type
OtherMessage(s, parses, type) ==
    /\ readyState[s] = "OPEN"
    /\ inbound' = IF parses THEN Parsed([type |-> type, data |-> NoData])
                  ELSE Unparseable
    /\ Commit(onmessage(ConnState, inbound'))
    /\ sent' = <<>>
    /\ uiReply' = <<>>
    /\ UNCHANGED <<domEffect, reqSocket, backend, uiMsg, reqVars, logVars, sideVars>>

(* ---------------------------------------------------------------------- *)
(* Continuations of the request handlers                                  *)
(* ---------------------------------------------------------------------- *)

\* chrome.tabs.query resolves with the active tab
TabQueryResolves(r, tab) ==
    /\ reqPc[r] = "awaitTab"
    /\ tab.id \notin closedTabs
    /\ HandlerTask(r, reqMsg[r], tab,
                   handleBrowserContextRequest(reqMsg[r], "awaitTab", tab, "ok", LogState))
    /\ emitted' = <<>>
    /\ uiReply' = <<>>
    /\ domEffect' = NoEffect
    /\ OriginKept(r)
    /\ UNCHANGED <<inbound, backend, connVars, uiMsg, sideVars>>

\* the promise of a capability call (captureVisibleTab, executeScript,
\* debugger.attach, debugger.sendCommand) settles
CapabilitySettles(r, settled) ==
    /\ reqPc[r] \in {"awaitCapture", "awaitScript", "awaitAttach",
                     "awaitLogEnable", "awaitRuntimeEnable"}
    /\ settled = "error" => reqPc[r] = "awaitScript"
    /\ (reqTab[r].id \in closedTabs
        /\ reqPc[r] \in {"awaitAttach", "awaitLogEnable", "awaitRuntimeEnable"})
       => settled = "reject"
    /\ HandlerTask(r, reqMsg[r], reqTab[r],
                   handleBrowserContextRequest(reqMsg[r], reqPc[r], reqTab[r], settled, LogState))
    /\ emitted' = <<>>
    /\ uiReply' = <<>>
    /\ domEffect' = NoEffect
    /\ OriginKept(r)
    /\ UNCHANGED <<inbound, backend, connVars, uiMsg, sideVars>>

\* the setTimeout(resolve, 100) of getConsoleLogs fires
SettleTimer(r) ==
    /\ reqPc[r] = "awaitSettle"
    /\ HandlerTask(r, reqMsg[r], reqTab[r],
                   handleBrowserContextRequest(reqMsg[r], "awaitSettle", reqTab[r], "ok", LogState))
    /\ emitted' = <<>>
    /\ uiReply' = <<>>
    /\ domEffect' = NoEffect
    /\ OriginKept(r)
    /\ UNCHANGED <<inbound, backend, connVars, uiMsg, sideVars>>

\* chrome.scripting.executeScript of modifyDomInTab settles; when it
\* resolves with a result, the injected function has run in a page where
\* the selector matches `matches` elements
ModifyScriptSettles(r, kind, matches, throwsAt) ==
    /\ reqPc[r] = "awaitModify"
    /\ kind # "ok" => matches = 0 /\ throwsAt = NoThrow
    /\ throwsAt = InvalidSelector => matches = 0
    /\ LET page == modifyDomFunc(reqMsg[r].params, matches, throwsAt)
           settled == CASE kind = "ok" -> ScriptResolved(page.result)
                        [] kind = "reject" -> ScriptRejected
                        [] OTHER -> ScriptNoResult
       IN /\ HandlerTask(r, reqMsg[r], reqTab[r],
                         handleBrowserContextRequest(reqMsg[r], "awaitModify",
                                                     reqTab[r], settled, LogState))
          /\ domEffect' = IF kind = "ok"
                          THEN [ran |-> TRUE, matched |-> matches,
                                modified |-> page.modified]
                          ELSE NoEffect
    /\ emitted' = <<>>
    /\ uiReply' = <<>>
    /\ OriginKept(r)
    /\ UNCHANGED <<inbound, backend, connVars, uiMsg, sideVars>>

(* ---------------------------------------------------------------------- *)
(* Debugger and tab events                                                *)
(* ---------------------------------------------------------------------- *)

\* chrome.debugger.onEvent delivers an event of tab tabId (NoTabId: of a
\* target that is no tab) at the next tick of the clock
DebuggerEvent(tabId, event) ==
    /\ delivered < MaxEvents
    /\ tabId \notin closedTabs
    /\ LET L == onEvent(LogState, tabId, event, now + 1)
       IN /\ attachedTabs' = L.attachedTabs
          /\ consoleLogs' = L.consoleLogs
    /\ now' = now + 1
    /\ delivered' = delivered + 1
    /\ lastEvent' = <<[tabId |-> tabId, method |-> event.method]>>
    /\ appended' = IF tabId \in attachedTabs /\ EntryOf(event, now + 1) # <<>>
                   THEN [appended EXCEPT ![tabId] =
                            Append(@, EntryOf(event, now + 1)[1])]
                   ELSE appended
    /\ emitted' = <<>>
    /\ sent' = <<>>
    /\ uiReply' = <<>>
    /\ UNCHANGED <<envVars, connVars, uiMsg, reqVars, retained, detachPc, closedTabs, sideVars>>

\* chrome.debugger.onDetach: the user or DevTools ended the session of tab
\* tabId
DebuggerDetach(tabId) ==
    /\ tabId \in attachedTabs
    /\ attachedTabs' = attachedTabs \ {tabId}
    /\ retained' = [retained EXCEPT ![tabId] = MapGetOrEmpty(consoleLogs, tabId)]
    /\ emitted' = <<>>
    /\ sent' = <<>>
    /\ uiReply' = <<>>
    /\ UNCHANGED <<envVars, connVars, uiMsg, reqVars, consoleLogs, now, delivered, lastEvent,
                   appended, detachPc, closedTabs, sideVars>>

\* chrome.tabs.onRemoved: tab tabId is closed
TabRemoved(tabId) ==
    /\ tabId \notin closedTabs
    /\ closedTabs' = closedTabs \cup {tabId}
    /\ attachedTabs' = attachedTabs \ {tabId}
    /\ consoleLogs' = MapDelete(consoleLogs, tabId)
    /\ appended' = [appended EXCEPT ![tabId] = <<>>]
    /\ retained' = [retained EXCEPT ![tabId] = <<>>]
    /\ emitted' = <<>>
    /\ sent' = <<>>
    /\ uiReply' = <<>>
    /\ UNCHANGED <<envVars, connVars, uiMsg, reqVars, now, delivered, lastEvent, detachPc,
                   sideVars>>

\* detachDebuggerFromTab(tabId) is called and runs up to its await.  The
\* source defines the function and never calls it; the two actions are what
\* a call does.
DetachCall(tabId) ==
    /\ detachPc[tabId] = "idle"
    /\ tabId \in attachedTabs
    /\ detachPc' = [detachPc EXCEPT ![tabId] = "awaitDetach"]
    /\ emitted' = <<>>
    /\ sent' = <<>>
    /\ uiReply' = <<>>
    /\ UNCHANGED <<envVars, connVars, uiMsg, reqVars, attachedTabs, consoleLogs, now, delivered,
                   lastEvent, appended, retained, closedTabs, sideVars>>

\* chrome.debugger.detach settles and detachDebuggerFromTab runs to its end
DetachSettles(tabId, settled) ==
    /\ detachPc[tabId] = "awaitDetach"
    /\ settled \in {"ok", "reject"}
    /\ detachPc' = [detachPc EXCEPT ![tabId] = "idle"]
    /\ IF settled = "ok"
       THEN /\ attachedTabs' = attachedTabs \ {tabId}
            /\ retained' = IF tabId \in attachedTabs
                           THEN [retained EXCEPT ![tabId] =
                                    MapGetOrEmpty(consoleLogs, tabId)]
                           ELSE retained
       ELSE UNCHANGED <<attachedTabs, retained>>
    /\ emitted' = <<>>
    /\ sent' = <<>>
    /\ uiReply' = <<>>
    /\ UNCHANGED <<envVars, connVars, uiMsg, reqVars, consoleLogs, now, delivered, lastEvent,
                   appended, closedTabs, sideVars>>

(* ---------------------------------------------------------------------- *)
(* Timers of the connection manager                                       *)
(* ---------------------------------------------------------------------- *)

\* setTimeout(connectToBackend, RECONNECT_DELAY) fires
ReconnectTimer(throws) ==
    /\ reconnectTimers > 0
    /\ ConnectFits(ConnState, throws)
    /\ Commit(connectToBackend(
           [ConnState EXCEPT !.reconnectTimers = @ - 1], throws))
    /\ sent' = <<>>
    /\ uiReply' = <<>>
    /\ UNCHANGED <<envVars, uiMsg, reqVars, logVars, sideVars>>

\* setInterval(..., 30000) fires
KeepAlive(throws) ==
    /\ ConnectFits(ConnState, throws)
    /\ IF socket = NullSocket \/ readyState[socket] # "OPEN"
       THEN Commit(connectToBackend(ConnState, throws))
       ELSE ~throws /\ Commit(ConnState)
    /\ sent' = <<>>
    /\ uiReply' = <<>>
    /\ UNCHANGED <<envVars, uiMsg, reqVars, logVars, sideVars>>

(* ---------------------------------------------------------------------- *)
(* The backend and the host of the service worker                         *)
(* ---------------------------------------------------------------------- *)

\* the backend server at BACKEND_URL starts to accept connections, and
\* goes on accepting them.  The attempts in progress at that moment may
\* still fail; later attempts do not.
BackendComesUp ==
    /\ ~backend.up
    /\ backend' = [up |-> TRUE,
                   pending |-> {s \in SocketIds : readyState[s] = "CONNECTING"}]
    /\ UNCHANGED <<connVars, emitted, uiMsg, uiReply, sent, reqVars, logVars,
                   sideVars, domEffect, reqSocket, inbound>>

\* the host loses a pending setTimeout(connectToBackend, RECONNECT_DELAY):
\* the timer never fires
ReconnectTimerLost ==
    /\ reconnectTimers > 0
    /\ reconnectTimers' = reconnectTimers - 1
    /\ UNCHANGED <<socket, readyState, reconnectAttempts, emitted, uiMsg, uiReply,
                   sent, reqVars, logVars, sideVars, envVars>>

\* an open WebSocket `socket` no longer refers to, on a backend that keeps
\* its connections: it delivers no further event and nothing in the
\* program can reach it, so it is no part of the state any more
SocketUnreferenced(s) ==
    /\ backend.up
    /\ s # socket
    /\ readyState[s] = "OPEN"
    /\ readyState' = [readyState EXCEPT ![s] = "CLOSED"]
    /\ UNCHANGED <<socket, reconnectAttempts, reconnectTimers, emitted, uiMsg,
                   uiReply, sent, reqVars, logVars, sideVars, envVars>>

(* ---------------------------------------------------------------------- *)
(* chrome.runtime.onMessage: messages from the side panel                 *)
(* ---------------------------------------------------------------------- *)

\* { type: 'connection:status', action: 'reconnect' }
ManualReconnect(throws) ==
    /\ ConnectFits(ConnState, throws)
    /\ IsOpen(socket, readyState) => ~throws
    /\ Commit(connectToBackend(
           [ConnState EXCEPT !.reconnectAttempts = 0], throws))
    /\ uiReply' = <<[success |-> TRUE]>>
    /\ sent' = <<>>
    /\ UNCHANGED <<envVars, uiMsg, reqVars, logVars, sideVars>>

\* { type: 'terminal:input' } or { type: 'terminal:resize' }
TerminalMessage(m, type) ==
    /\ uiMsg[m] = "unsent"
    /\ LET ok == sendToBackend(socket, readyState)
       IN /\ uiMsg' = [uiMsg EXCEPT ![m] = IF ok THEN "sent" ELSE "refused"]
          /\ sent' = IF ok
                     THEN <<[via |-> socket, envelope |-> [type |-> type, id |-> m]]>>
                     ELSE <<>>
    /\ uiReply' = <<[success |-> TRUE]>>
    /\ emitted' = <<>>
    /\ UNCHANGED <<envVars, connVars, reqVars, logVars, sideVars>>

\* a listener that reports connected whenever `socket` is not null
Ping_SocketNotNull ==
    /\ Len(pingTimers) < MaxPings
    /\ LET status == IF socket # NullSocket THEN "connected" ELSE "disconnected"
       IN /\ uiReply' = <<[type |-> "pong", connectionStatus |-> status]>>
          /\ pingTimers' = Append(pingTimers, status)
    /\ emitted' = <<>>
    /\ sent' = <<>>
    /\ UNCHANGED <<envVars, connVars, uiMsg, reqVars, logVars, csCalls>>

\* { type: 'ping' }: the listener answers with the state of `socket` and
\* arms the timer of the status broadcast
Ping ==
    /\ Len(pingTimers) < MaxPings
    /\ LET status == IF IsOpen(socket, readyState) THEN "connected" ELSE "disconnected"
       IN /\ uiReply' = <<[type |-> "pong", connectionStatus |-> status]>>
          /\ pingTimers' = Append(pingTimers, status)
    /\ emitted' = <<>>
    /\ sent' = <<>>
    /\ UNCHANGED <<envVars, connVars, uiMsg, reqVars, logVars, csCalls>>

\* the setTimeout(..., 100) of a ping fires: the status the listener read is
\* broadcast
PingBroadcast ==
    /\ pingTimers # <<>>
    /\ Commit(broadcastToExtension(
           ConnState, ConnectionStatusMessage(Head(pingTimers), NoMessage)))
    /\ pingTimers' = Tail(pingTimers)
    /\ sent' = <<>>
    /\ uiReply' = <<>>
    /\ UNCHANGED <<envVars, uiMsg, reqVars, logVars, csCalls>>

(* ---------------------------------------------------------------------- *)
(* _sendToContentScript.  The source defines the function and never calls *)
(* it; the actions are what a call does.                                  *)
(* ---------------------------------------------------------------------- *)

\* _sendToContentScript(tabId, message) is called
ContentScriptCall(c) ==
    /\ csCalls[c] = NoCall
    /\ csCalls' = [csCalls EXCEPT ![c] = sendToContentScript(@)]
    /\ emitted' = <<>>
    /\ sent' = <<>>
    /\ uiReply' = <<>>
    /\ UNCHANGED <<envVars, connVars, uiMsg, reqVars, logVars, pingTimers>>

\* 10 s have passed since the call and its timer is still armed
ContentScriptTimeout(c) ==
    /\ csCalls[c].timer = "armed"
    /\ csCalls' = [csCalls EXCEPT ![c] = onContentScriptTimeout(@)]
    /\ emitted' = <<>>
    /\ sent' = <<>>
    /\ uiReply' = <<>>
    /\ UNCHANGED <<envVars, connVars, uiMsg, reqVars, logVars, pingTimers>>

\* chrome.tabs.sendMessage invokes its callback, with the response of the
\* content script or with chrome.runtime.lastError set
ContentScriptResponse(c, lastError, response) ==
    /\ csCalls[c].callback = "pending"
    /\ csCalls' = [csCalls EXCEPT ![c] = onContentScriptResponse(@, lastError, response)]
    /\ emitted' = <<>>
    /\ sent' = <<>>
    /\ uiReply' = <<>>
    /\ UNCHANGED <<envVars, connVars, uiMsg, reqVars, logVars, pingTimers>>

Next ==
    \/ \E s \in SocketIds : SocketOpen(s)
    \/ \E s \in SocketIds : SocketClosing(s)
    \/ \E s \in SocketIds, failed \in BOOLEAN : SocketClose(s, failed)
    \/ \E s \in SocketIds, r \in ReqIds, action \in Actions, tab \in TabSnapshots :
          \E params \in ParamsOf(action) : RequestArrives(s, r, action, params, tab)
    \/ \E s \in SocketIds, data \in TerminalData : TerminalOutput(s, data)
    \/ \E s \in SocketIds, parses \in BOOLEAN, type \in OtherTypes :
          OtherMessage(s, parses, type)
    \/ \E r \in ReqIds, tab \in TabSnapshots : TabQueryResolves(r, tab)
    \/ \E r \in ReqIds, settled \in Settlements : CapabilitySettles(r, settled)
    \/ \E r \in ReqIds : SettleTimer(r)
    \/ \E r \in ReqIds, kind \in Settlements, matches \in 0..MaxElems,
          throwsAt \in 0..MaxElems + 1 :
          ModifyScriptSettles(r, kind, matches, throwsAt)
    \/ \E throws \in BOOLEAN : ReconnectTimer(throws)
    \/ \E throws \in BOOLEAN : KeepAlive(throws)
    \/ \E throws \in BOOLEAN : ManualReconnect(throws)
    \/ \E m \in MsgIds, type \in {"terminal:input", "terminal:resize"} :
          TerminalMessage(m, type)
    \/ Ping
    \/ PingBroadcast
    \/ \E tabId \in TabIds \cup {NoTabId}, event \in DebuggerEvents :
          DebuggerEvent(tabId, event)
    \/ \E tabId \in TabIds : DebuggerDetach(tabId)
    \/ \E tabId \in TabIds : TabRemoved(tabId)
    \/ \E tabId \in TabIds : DetachCall(tabId)
    \/ \E tabId \in TabIds, settled \in Settlements : DetachSettles(tabId, settled)
    \/ \E c \in CallIds : ContentScriptCall(c)
    \/ \E c \in CallIds : ContentScriptTimeout(c)
    \/ \E c \in CallIds, lastError \in BOOLEAN, response \in ContentScriptResponses :
          ContentScriptResponse(c, lastError, response)

Spec == Init /\ [][Next]_vars

\* The connection manager and the side panel, with no browser:request
NextConn ==
    \/ \E s \in SocketIds : SocketOpen(s)
    \/ \E s \in SocketIds : SocketClosing(s)
    \/ \E s \in SocketIds, failed \in BOOLEAN : SocketClose(s, failed)
    \/ \E throws \in BOOLEAN : ReconnectTimer(throws)
    \/ \E throws \in BOOLEAN : KeepAlive(throws)
    \/ \E throws \in BOOLEAN : ManualReconnect(throws)
    \/ \E m \in MsgIds, type \in {"terminal:input", "terminal:resize"} :
          TerminalMessage(m, type)

SpecConn == Init /\ [][NextConn]_vars

\* The router of browser:requests, one request at a time, over a connection
\* manager whose reconnect timers have not fired yet: sockets open and close,
\* and the keep-alive tick reconnects
NoHandlerRunning == \A q \in ReqIds : reqPc[q] = "idle"
\* the requestId of the requests that are handled one at a time: the
\* handlers copy it into the response and look at it nowhere
SerialRequestIds == {1}

NextRouter ==
    \/ \E s \in SocketIds : SocketOpen(s)
    \/ \E s \in SocketIds : SocketClosing(s)
    \/ \E s \in SocketIds, failed \in BOOLEAN : SocketClose(s, failed)
    \/ \E throws \in BOOLEAN : KeepAlive(throws)
    \/ /\ NoHandlerRunning
       /\ \E s \in SocketIds, r \in SerialRequestIds, action \in Actions, tab \in TabSnapshots :
             \E params \in RouterParamsOf(action) :
                RequestArrives(s, r, action, params, tab)
    \/ \E r \in ReqIds, tab \in TabSnapshots : TabQueryResolves(r, tab)
    \/ \E r \in ReqIds, settled \in Settlements : CapabilitySettles(r, settled)
    \/ \E r \in ReqIds : SettleTimer(r)
    \/ \E r \in ReqIds, kind \in Settlements, matches \in {0, 1} :
          ModifyScriptSettles(r, kind, matches, NoThrow)

SpecRouter == Init /\ [][NextRouter]_vars

\* The debug sessions: getConsoleLogs requests, one at a time, on a
\* connection that opens and stays open, while the debugger delivers
\* events and sessions and tabs end
SessionEvents ==
    {e \in DebuggerEvents :
        e.method \in {"Runtime.exceptionThrown", "Network.requestWillBeSent"}}

NextLog ==
    \/ \E s \in SocketIds : SocketOpen(s)
    \/ /\ NoHandlerRunning
       /\ \E s \in SocketIds, r \in SerialRequestIds :
             RequestArrives(s, r, "getConsoleLogs", DefaultParams, NoTab)
    \/ \E r \in ReqIds, tab \in TabSnapshots : TabQueryResolves(r, tab)
    \/ \E r \in ReqIds, settled \in Settlements : CapabilitySettles(r, settled)
    \/ \E r \in ReqIds : SettleTimer(r)
    \/ \E tabId \in TabIds \cup {NoTabId}, event \in SessionEvents :
          DebuggerEvent(tabId, event)
    \/ \E tabId \in TabIds : DebuggerDetach(tabId)
    \/ \E tabId \in TabIds : TabRemoved(tabId)
    \/ \E tabId \in TabIds : DetachCall(tabId)
    \/ \E tabId \in TabIds, settled \in Settlements : DetachSettles(tabId, settled)

SpecLog == Init /\ [][NextLog]_vars

\* Reads of the log buffer: getConsoleLogs requests with every level and
\* clear, one at a time, while the console of the tabs logs at every level
FilterEvents ==
    {e \in DebuggerEvents :
        e.method \in {"Runtime.consoleAPICalled", "Runtime.exceptionThrown"}}

NextFilter ==
    \/ \E s \in SocketIds : SocketOpen(s)
    \/ /\ NoHandlerRunning
       /\ \E s \in SocketIds, r \in SerialRequestIds, params \in LogParams :
             RequestArrives(s, r, "getConsoleLogs", params, NoTab)
    \/ \E r \in ReqIds, tab \in TabSnapshots : TabQueryResolves(r, tab)
    \/ \E r \in ReqIds, settled \in Settlements : CapabilitySettles(r, settled)
    \/ \E r \in ReqIds : SettleTimer(r)
    \/ \E tabId \in TabIds, event \in FilterEvents : DebuggerEvent(tabId, event)

SpecFilter == Init /\ [][NextFilter]_vars

\* A ring about to overflow: the state after tab 1 was attached by a
\* getConsoleLogs request and threw RingFill uncaught exceptions, one per
\* tick, and what the program does from there
RingFills == {MAX_LOGS_PER_TAB - 1, MAX_LOGS_PER_TAB}

FilledRing(fill) == [i \in 1..fill |-> ConsoleLogEntry("error", i)]

InitRing ==
    /\ \E throws \in BOOLEAN :
          LET c == connectToBackend(Blank, throws)
          IN /\ socket = c.socket
             /\ readyState = c.readyState
             /\ reconnectAttempts = c.reconnectAttempts
             /\ reconnectTimers = c.reconnectTimers
             /\ emitted = <<>>
    /\ uiMsg = [m \in MsgIds |-> "unsent"]
    /\ uiReply = <<>>
    /\ sent = <<>>
    /\ reqPc = [r \in ReqIds |-> "idle"]
    /\ reqMsg = [r \in ReqIds |-> NoRequest]
    /\ reqTab = [r \in ReqIds |-> NoTab]
    /\ reqPrims = [r \in ReqIds |-> {}]
    /\ \E fill \in RingFills :
          /\ attachedTabs = {1}
          /\ consoleLogs = MapSet(<<>>, 1, FilledRing(fill))
          /\ now = fill
          /\ appended = [t \in TabIds |-> IF t = 1 THEN FilledRing(fill) ELSE <<>>]
    /\ delivered = 0
    /\ lastEvent = <<[tabId |-> 1, method |-> "Runtime.exceptionThrown"]>>
    /\ retained = [t \in TabIds |-> <<>>]
    /\ detachPc = [t \in TabIds |-> "idle"]
    /\ closedTabs = {}
    /\ pingTimers = <<>>
    /\ csCalls = [c \in CallIds |-> NoCall]
    /\ domEffect = NoEffect
    /\ inbound = NoInbound
    /\ reqSocket = [r \in ReqIds |-> NoOrigin]
    /\ backend = [up |-> FALSE, pending |-> {}]

RingEvents == {e \in DebuggerEvents : e.method = "Runtime.exceptionThrown"}

NextRing ==
    \/ \E s \in SocketIds : SocketOpen(s)
    \/ /\ NoHandlerRunning
       /\ \E s \in SocketIds, r \in SerialRequestIds, clear \in BOOLEAN :
             RequestArrives(s, r, "getConsoleLogs",
                            [DefaultParams EXCEPT !.clear = clear], NoTab)
    \/ \E r \in ReqIds, tab \in TabSnapshots : TabQueryResolves(r, tab)
    \/ \E r \in ReqIds, settled \in Settlements : CapabilitySettles(r, settled)
    \/ \E r \in ReqIds : SettleTimer(r)
    \/ \E tabId \in TabIds, event \in RingEvents : DebuggerEvent(tabId, event)
    \/ \E tabId \in TabIds : DebuggerDetach(tabId)
    \/ \E tabId \in TabIds : TabRemoved(tabId)

SpecRing == InitRing /\ [][NextRing]_vars

\* modifyDom requests, one at a time, on a connection that opens and stays
\* open, in pages where the selector matches up to MaxElems elements
NextDom ==
    \/ \E s \in SocketIds : SocketOpen(s)
    \/ /\ NoHandlerRunning
       /\ \E s \in SocketIds, r \in SerialRequestIds, params \in DomParams :
             RequestArrives(s, r, "modifyDom", params, NoTab)
    \/ \E r \in ReqIds, tab \in TabSnapshots : TabQueryResolves(r, tab)
    \/ \E r \in ReqIds, kind \in Settlements, matches \in 0..MaxElems,
          throwsAt \in 0..MaxElems + 1 :
          ModifyScriptSettles(r, kind, matches, throwsAt)

SpecDom == Init /\ [][NextDom]_vars

\* Messages of the backend on a connection that opens and stays open:
\* browser:requests whose handlers interleave at their awaits, terminal
\* output, and messages onmessage has no use for
FlightActions == {"getDom", "getSelection", "screenshot"}

NextFlight ==
    \/ \E s \in SocketIds : SocketOpen(s)
    \/ \E s \in SocketIds, r \in ReqIds, action \in FlightActions, tab \in TabSnapshots :
          RequestArrives(s, r, action, DefaultParams, tab)
    \/ \E s \in SocketIds, data \in TerminalData : TerminalOutput(s, data)
    \/ \E s \in SocketIds, parses \in BOOLEAN, type \in OtherTypes :
          OtherMessage(s, parses, type)
    \/ \E r \in ReqIds, tab \in TabSnapshots : TabQueryResolves(r, tab)
    \/ \E r \in ReqIds, settled \in Settlements : CapabilitySettles(r, settled)

SpecFlight == Init /\ [][NextFlight]_vars

\* The connection manager alone with a backend that is down at first and
\* then comes up for good: no message of the side panel, no manual
\* reconnect.  While the backend is down every attempt fails; once it is
\* up `new WebSocket` does not throw, and only the attempts that were in
\* progress when it came up can still fail.
SocketOpenLive(s) == backend.up /\ SocketOpen(s)
SocketFailsLive(s) ==
    /\ readyState[s] = "CONNECTING"
    /\ ~backend.up \/ s \in backend.pending
    /\ SocketClose(s, TRUE)
ReconnectTimerLive(throws) == (backend.up => ~throws) /\ ReconnectTimer(throws)
KeepAliveLive(throws) == (backend.up => ~throws) /\ KeepAlive(throws)

NextLive ==
    \/ BackendComesUp
    \/ ReconnectTimerLost
    \/ \E s \in SocketIds : SocketOpenLive(s)
    \/ \E s \in SocketIds : SocketFailsLive(s)
    \/ \E s \in SocketIds : SocketUnreferenced(s)
    \/ \E throws \in BOOLEAN : ReconnectTimerLive(throws)
    \/ \E throws \in BOOLEAN : KeepAliveLive(throws)

\* the timers and the interval fire, and an attempt the backend accepts
\* completes
LiveFairness ==
    /\ WF_vars(\E throws \in BOOLEAN : KeepAliveLive(throws))
    /\ WF_vars(\E throws \in BOOLEAN : ReconnectTimerLive(throws))
    /\ \A s \in SocketIds : WF_vars(SocketOpenLive(s))
    /\ \A s \in SocketIds : WF_vars(SocketFailsLive(s) \/ SocketOpenLive(s))

SpecLive == Init /\ [][NextLive]_vars /\ LiveFairness

\* The liveness probe over the connection manager
NextPing ==
    \/ \E s \in SocketIds : SocketOpen(s)
    \/ \E s \in SocketIds : SocketClosing(s)
    \/ \E s \in SocketIds, failed \in BOOLEAN : SocketClose(s, failed)
    \/ \E throws \in BOOLEAN : ReconnectTimer(throws)
    \/ \E throws \in BOOLEAN : KeepAlive(throws)
    \/ Ping
    \/ PingBroadcast

SpecPing == Init /\ [][NextPing]_vars

\* Calls of _sendToContentScript
NextContentScript ==
    \/ \E c \in CallIds : ContentScriptCall(c)
    \/ \E c \in CallIds : ContentScriptTimeout(c)
    \/ \E c \in CallIds, lastError \in BOOLEAN, response \in ContentScriptResponses :
          ContentScriptResponse(c, lastError, response)

SpecContentScript == Init /\ [][NextContentScript]_vars

TypeOK ==
    /\ socket \in SocketIds \cup {NullSocket}
    /\ readyState \in [SocketIds -> ReadyStates]
    /\ reconnectAttempts \in 0..MAX_RECONNECT_ATTEMPTS
    /\ reconnectTimers \in 0..MaxTimers
    /\ reqPc \in [ReqIds -> AwaitPcs \cup {"idle"}]
    /\ attachedTabs \subseteq TabIds
    /\ DOMAIN consoleLogs \subseteq TabIds
    /\ closedTabs \subseteq TabIds
    /\ delivered \in 0..MaxEvents
    /\ Len(pingTimers) <= MaxPings
    /\ \A c \in CallIds :
          csCalls[c].promise \in {"none", "pending", "resolved", "rejected"}

(* ---------------------------------------------------------------------- *)
(* Vocabulary of the properties                                           *)
(* ---------------------------------------------------------------------- *)

\* a connection status was broadcast in the last task / is in this one
Broadcast(seq, status) ==
    \E i \in 1..Len(seq) :
        seq[i].type = "connection:status" /\ seq[i].status = status
BroadcastCount(seq, status) ==
    Cardinality({i \in 1..Len(seq) :
                    seq[i].type = "connection:status" /\ seq[i].status = status})
BroadcastError(seq, message) ==
    \E i \in 1..Len(seq) :
        /\ seq[i].type = "connection:status"
        /\ seq[i].status = "error"
        /\ seq[i].message = message

LiveSockets == {s \in SocketIds : readyState[s] \in {"CONNECTING", "OPEN"}}

\* the steps in which connectToBackend is called
ReconnectTimerStep == \E throws \in BOOLEAN : ReconnectTimer(throws)
KeepAliveStep == \E throws \in BOOLEAN : KeepAlive(throws)
ManualReconnectStep == \E throws \in BOOLEAN : ManualReconnect(throws)
ConnectStep == ReconnectTimerStep \/ KeepAliveStep \/ ManualReconnectStep
\* ... and `new WebSocket` raised an exception
ConnectThrowsStep ==
    /\ ~IsOpen(socket, readyState)
    /\ ReconnectTimer(TRUE) \/ KeepAlive(TRUE) \/ ManualReconnect(TRUE)

SocketOpenStep == \E s \in SocketIds : SocketOpen(s)
SocketCloseStep == \E s \in SocketIds, failed \in BOOLEAN : SocketClose(s, failed)
TerminalMessageStep(m) ==
    \E type \in {"terminal:input", "terminal:resize"} : TerminalMessage(m, type)

\* a connection attempt is made in this step
AttemptStep == Broadcast(emitted', "connecting")

(* ---------------------------------------------------------------------- *)
(* C2: calling connect while the connection is open, or while a           *)
(* connection attempt is in progress, is a no-op: no new socket is        *)
(* created, no status is broadcast and the attempt counter is unchanged   *)
(* (a manual reconnect has set it to zero before it calls connect).       *)
(* ---------------------------------------------------------------------- *)
C2_ConnectIsNoOp ==
    [][ (/\ ConnectStep
         /\ socket # NullSocket
         /\ readyState[socket] \in {"OPEN", "CONNECTING"})
        => /\ UNCHANGED <<socket, readyState, reconnectTimers>>
           /\ emitted' = <<>>
           /\ reconnectAttempts' =
                 IF ManualReconnectStep THEN 0 ELSE reconnectAttempts ]_vars

(* ---------------------------------------------------------------------- *)
(* C3: at every moment at most one socket to the backend is connecting    *)
(* or open.                                                               *)
(* ---------------------------------------------------------------------- *)
C3_SingleLiveSocket == Cardinality(LiveSockets) <= 1

(* ---------------------------------------------------------------------- *)
(* C4: the attempt counter never exceeds MAX_RECONNECT_ATTEMPTS; it is    *)
(* zero after a successful connection and after a manual reconnect        *)
(* trigger has reset it (one, when the connect it then calls fails to     *)
(* create the socket); every other change of it is an increase by one at  *)
(* a failed attempt: a socket closure or a socket that cannot be created. *)
(* ---------------------------------------------------------------------- *)
C4_AttemptCounter ==
    /\ [](reconnectAttempts \in 0..MAX_RECONNECT_ATTEMPTS)
    /\ [][ /\ SocketOpenStep => reconnectAttempts' = 0
           /\ ManualReconnectStep =>
                 reconnectAttempts' = IF ConnectThrowsStep THEN 1 ELSE 0
           /\ (reconnectAttempts' # reconnectAttempts
                   /\ ~SocketOpenStep /\ ~ManualReconnectStep)
              => /\ reconnectAttempts' = reconnectAttempts + 1
                 /\ SocketCloseStep \/ ConnectThrowsStep ]_vars

\* the counter is at the maximum and a further failure has left it there
C4_Witness ==
    /\ reconnectAttempts = MAX_RECONNECT_ATTEMPTS
    /\ BroadcastError(emitted, MaxAttemptsText)
    /\ Broadcast(emitted, "disconnected")

(* ---------------------------------------------------------------------- *)
(* C5: once the counter is at the maximum and the connection has failed   *)
(* again (no socket is left and no reconnect timer is pending), no        *)
(* connection attempt is made unless by a manual reconnect trigger.       *)
(* ---------------------------------------------------------------------- *)
TerminalError ==
    /\ reconnectAttempts = MAX_RECONNECT_ATTEMPTS
    /\ reconnectTimers = 0
    /\ \A s \in SocketIds : readyState[s] = "CLOSED"

C6_CloseSchedulesOneReconnect ==
    [][ (SocketCloseStep /\ reconnectAttempts < MAX_RECONNECT_ATTEMPTS)
        => /\ socket' = NullSocket
           /\ ~IsOpen(socket', readyState')
           /\ BroadcastCount(emitted', "disconnected") = 1
           /\ reconnectTimers' = reconnectTimers + 1
           /\ reconnectAttempts' = reconnectAttempts + 1 ]_vars

C6_Witness ==
    /\ Broadcast(emitted, "disconnected")
    /\ socket = NullSocket
    /\ reconnectTimers >= 1
    /\ reconnectAttempts \in 1..MAX_RECONNECT_ATTEMPTS
    /\ ~BroadcastError(emitted, MaxAttemptsText)

(* ---------------------------------------------------------------------- *)
(* C7: a send while the socket is not open returns false and transmits    *)
(* nothing, and the refused envelope is transmitted in no later task,     *)
(* whatever the connection does afterwards.                               *)
(* ---------------------------------------------------------------------- *)
Transmitted(seq, m) ==
    \E i \in 1..Len(seq) :
        /\ seq[i].envelope.type \in {"terminal:input", "terminal:resize"}
        /\ seq[i].envelope.id = m

C7_SendFailsFast ==
    /\ [][ \A m \in MsgIds :
             (TerminalMessageStep(m) /\ ~IsOpen(socket, readyState))
             => /\ sent' = <<>>
                /\ uiMsg'[m] = "refused"
                /\ UNCHANGED connVars ]_vars
    /\ [][ \A m \in MsgIds :
             uiMsg[m] = "refused"
             => uiMsg'[m] = "refused" /\ ~Transmitted(sent', m) ]_vars

\* an envelope was refused and the connection has been established since
C7_Witness ==
    /\ \E m \in MsgIds : uiMsg[m] = "refused"
    /\ IsOpen(socket, readyState)
    /\ Broadcast(emitted, "connected")

(* ---------------------------------------------------------------------- *)
(* C8: when the side panel submits terminal:input or terminal:resize and  *)
(* the socket is not open, the reply reports the failure: success is      *)
(* false.                                                                 *)
(* ---------------------------------------------------------------------- *)
C8_SendFailureSurfaced ==
    [][ \A m \in MsgIds :
          (TerminalMessageStep(m) /\ ~IsOpen(socket, readyState))
          => /\ Len(uiReply') = 1
             /\ uiReply'[1].success = FALSE ]_vars

(* ---------------------------------------------------------------------- *)
(* Vocabulary of the properties of the router                             *)
(* ---------------------------------------------------------------------- *)

\* the handler of request r ends in this step, after at least one await
FinishStep(r) == reqPc[r] \in AwaitPcs /\ reqPc'[r] = "idle"

\* a request with an action the switch does not know arrives, and is r
UnknownArrivalStep(r) ==
    \E s \in SocketIds, action \in UnknownActions :
        RequestArrives(s, r, action, DefaultParams, NoTab)

IsResponse(e) == e.envelope.type = "browser:response"

CapabilityPrims == {"scripting.executeScript", "tabs.captureVisibleTab",
                    "debugger.attach", "debugger.sendCommand"}

(* ---------------------------------------------------------------------- *)
(* C1: when the handler of a browser:request with a known action ends,    *)
(* exactly one browser:response with the requestId of the request is      *)
(* transmitted, whatever the socket has done in the meantime.             *)
(* ---------------------------------------------------------------------- *)
C1_ExactlyOneResponse ==
    [][ \A r \in ReqIds :
          FinishStep(r)
          => /\ Len(sent') = 1
             /\ IsResponse(sent'[1])
             /\ sent'[1].envelope.requestId = r ]_vars

\* C1 as amended: when the handler ends and the socket of the manager is
\* open, exactly one browser:response with the requestId is transmitted, on
\* that socket; when the socket is not open, none is; and a browser:response
\* is transmitted in no other step than the one that ends the handler of its
\* request, so that there is at most one per request.
C1_OneResponseIfOpen ==
    /\ [][ \A r \in ReqIds :
             FinishStep(r)
             => IF IsOpen(socket, readyState)
                THEN /\ Len(sent') = 1
                     /\ IsResponse(sent'[1])
                     /\ sent'[1].envelope.requestId = r
                     /\ sent'[1].via = socket
                ELSE sent' = <<>> ]_vars
    /\ [][ /\ Len(sent') <= 1
           /\ \A i \in 1..Len(sent') :
                 IsResponse(sent'[i])
                 => \E r \in ReqIds :
                       /\ sent'[i].envelope.requestId = r
                       /\ FinishStep(r) \/ UnknownArrivalStep(r) ]_vars

\* a known action has succeeded and its response has been transmitted
C1_Witness ==
    /\ Len(sent) = 1
    /\ IsResponse(sent[1])
    /\ sent[1].envelope.success

(* ---------------------------------------------------------------------- *)
(* C9: a browser:request with an action outside the fixed set is          *)
(* answered at once with a browser:response that carries the requestId,   *)
(* success = false and an error naming the action.                        *)
(* ---------------------------------------------------------------------- *)
C9_UnknownActionAnswered ==
    [][ \A s \in SocketIds, r \in ReqIds, action \in UnknownActions :
          RequestArrives(s, r, action, DefaultParams, NoTab)
          => /\ Len(sent') = 1
             /\ sent'[1].envelope =
                   BrowserContextResponse(r, FALSE, NoData,
                                          <<"Unknown action: ", action>>) ]_vars

(* ---------------------------------------------------------------------- *)
(* C10: when the address of the active tab begins with a disallowed       *)
(* prefix, no capability primitive is invoked for a request, whatever its *)
(* action, and the request ends with a failure response.                  *)
(* ---------------------------------------------------------------------- *)
C10_RestrictedTabRejected ==
    [][ \A r \in ReqIds, tab \in TabSnapshots :
          IsRestricted(tab.url)
          => /\ (\E s \in SocketIds, action \in Actions :
                    \E params \in ParamsOf(action) :
                       RequestArrives(s, r, action, params, tab))
                => reqPrims'[r] \cap CapabilityPrims = {}
             /\ TabQueryResolves(r, tab)
                => /\ reqPc'[r] = "idle"
                   /\ IsOpen(socket, readyState)
                      => /\ Len(sent') = 1
                         /\ IsResponse(sent'[1])
                         /\ ~sent'[1].envelope.success ]_vars
(* ---------------------------------------------------------------------- *)
(* C11: after any sequence of debugger events, clears, attaches, detaches *)
(* and tab closures, every tab's ring holds at most MAX_LOGS_PER_TAB      *)
(* (500) records, and they are the most recently appended ones since the  *)
(* ring was last emptied or created, in the order of their arrival.       *)
(* ---------------------------------------------------------------------- *)
C11_RingHoldsMostRecent ==
    \A t \in DOMAIN consoleLogs :
        LET n == Len(appended[t])
            kept == IF n > 500 THEN 500 ELSE n
        IN /\ Len(consoleLogs[t]) <= 500
           /\ consoleLogs[t] = [i \in 1..kept |-> appended[t][n - kept + i]]

\* a ring that has dropped its oldest record and holds the newest
C11_Witness ==
    \E t \in DOMAIN consoleLogs :
        /\ Len(appended[t]) > 500
        /\ Len(consoleLogs[t]) = 500
        /\ consoleLogs[t][500].timestamp = now

(* ---------------------------------------------------------------------- *)
(* C12: in every reachable state a tab is in the set of active debug      *)
(* sessions if and only if a log ring exists for it.                      *)
(* ---------------------------------------------------------------------- *)
C12_SessionIffRing == attachedTabs = DOMAIN consoleLogs

\* C12, as amended: every tab with an active debug session has a ring (the
\* ring outlives the session when the session is detached).
C12_SessionHasRing == attachedTabs \subseteq DOMAIN consoleLogs

\* one tab has a session and a ring with a record in it
C12_Witness ==
    \E t \in attachedTabs :
        /\ t \in DOMAIN consoleLogs
        /\ consoleLogs[t] # <<>>

(* ---------------------------------------------------------------------- *)
(* C13: a detachment, by the onDetach event or by detachDebuggerFromTab,  *)
(* removes the tab from the set of active sessions and leaves every ring  *)
(* as it is; a debugger event that arrives for a tab while it has no      *)
(* session appends nothing.                                               *)
(* ---------------------------------------------------------------------- *)
DetachStep(t) == DebuggerDetach(t) \/ DetachSettles(t, "ok")

C13_DetachKeepsRing ==
    [][ \A t \in TabIds :
          /\ DetachStep(t)
             => /\ t \notin attachedTabs'
                /\ attachedTabs' = attachedTabs \ {t}
                /\ consoleLogs' = consoleLogs
          /\ (t \notin attachedTabs /\ \E e \in DebuggerEvents : DebuggerEvent(t, e))
             => consoleLogs' = consoleLogs ]_vars

\* a tab without a session keeps a ring with a record, and an uncaught
\* exception reported for it after the last record was not appended
C13_Witness ==
    \E t \in TabIds :
        /\ t \notin attachedTabs
        /\ t \in DOMAIN consoleLogs
        /\ consoleLogs[t] # <<>>
        /\ lastEvent = <<[tabId |-> t, method |-> "Runtime.exceptionThrown"]>>
        /\ consoleLogs[t][Len(consoleLogs[t])].timestamp < now

(* ---------------------------------------------------------------------- *)
(* C14: the records that were in a tab's ring when its debug session was  *)
(* detached are returned by the next getConsoleLogs request for that tab  *)
(* that succeeds (the tab is still open and nothing cleared the ring).    *)
(* ---------------------------------------------------------------------- *)
C14_DetachedRecordsReadable ==
    [][ \A r \in ReqIds :
          (FinishStep(r) /\ reqMsg[r].action = "getConsoleLogs")
          => \A i \in 1..Len(sent') :
                sent'[i].envelope.success
                => LET data == sent'[i].envelope.data
                       kept == retained[data.tabId]
                   IN \A k \in 1..Len(kept) :
                         \E j \in 1..Len(data.logs) : data.logs[j] = kept[k] ]_vars

(* ---------------------------------------------------------------------- *)
(* C15: when the script of an executeScript request raises an exception   *)
(* in the page, the response of the request reports a failure, not a      *)
(* success.                                                               *)
(* ---------------------------------------------------------------------- *)
C15_ScriptExceptionReported ==
    [][ \A r \in ReqIds :
          (reqPc[r] = "awaitScript" /\ CapabilitySettles(r, "error"))
          => \A i \in 1..Len(sent') :
                IsResponse(sent'[i]) => ~sent'[i].envelope.success ]_vars

(* ---------------------------------------------------------------------- *)
(* C16: a call of _sendToContentScript whose response has not come when   *)
(* its timer fires is rejected with the timeout error, and a response     *)
(* that comes later changes nothing; once a response has settled the      *)
(* call, its timer never fires and the outcome stays.                     *)
(* ---------------------------------------------------------------------- *)
C16_TimeoutOrResponse ==
    [][ \A c \in CallIds :
          /\ (csCalls[c].promise = "pending" /\ ContentScriptTimeout(c))
             => /\ csCalls'[c].promise = "rejected"
                /\ csCalls'[c].value = [error |-> "Content script response timeout"]
          /\ csCalls[c].promise \in {"resolved", "rejected"}
             => /\ csCalls'[c].promise = csCalls[c].promise
                /\ csCalls'[c].value = csCalls[c].value
          /\ csCalls[c].callback = "done" => ~ContentScriptTimeout(c) ]_vars

\* a call was rejected by its timer and the response came afterwards
C16_Witness ==
    \E c \in CallIds :
        /\ csCalls[c].promise = "rejected"
        /\ csCalls[c].value = [error |-> "Content script response timeout"]
        /\ csCalls[c].timer = "fired"
        /\ csCalls[c].callback = "done"

(* ---------------------------------------------------------------------- *)
(* C17: a failure of the socket is broadcast to the side panel as an      *)
(* error status only when the automatic reconnect attempts are exhausted: *)
(* while attempts remain the failure broadcasts no error status, and when *)
(* they are exhausted it broadcasts one.                                  *)
(* ---------------------------------------------------------------------- *)
C17_ErrorOnlyWhenExhausted ==
    [][ SocketCloseStep
        => (Broadcast(emitted', "error")
            <=> reconnectAttempts = MAX_RECONNECT_ATTEMPTS) ]_vars

(* ---------------------------------------------------------------------- *)
(* C18: a ping of the side panel is answered in the task that handles it  *)
(* with the state of the connection at that moment: the reply says        *)
(* connected exactly when the manager's socket is open, and the task      *)
(* broadcasts no status and changes nothing of the connection.            *)
(* ---------------------------------------------------------------------- *)
C18_PingAnswersCurrentState ==
    [][ Ping
        => /\ Len(uiReply') = 1
           /\ uiReply'[1].type = "pong"
           /\ uiReply'[1].connectionStatus \in {"connected", "disconnected"}
           /\ uiReply'[1].connectionStatus = "connected"
              <=> (socket # NullSocket /\ readyState[socket] = "OPEN")
           /\ emitted' = <<>>
           /\ UNCHANGED connVars ]_vars

\* a ping was answered `connected` on an open socket, and the status
\* broadcast that follows it is still pending
C18_Witness ==
    /\ uiReply = <<[type |-> "pong", connectionStatus |-> "connected"]>>
    /\ pingTimers = <<"connected">>
    /\ socket # NullSocket
    /\ readyState[socket] = "OPEN"

(* ---------------------------------------------------------------------- *)
(* C19: when chrome.debugger.attach, Log.enable or Runtime.enable is      *)
(* rejected while a getConsoleLogs request establishes the debug session, *)
(* the handler ends there and the response of the request is a failure    *)
(* whose error starts with "Failed to attach debugger: "; it is never a   *)
(* success.                                                               *)
(* ---------------------------------------------------------------------- *)
AttachRejectedStep(r) ==
    /\ reqPc[r] \in {"awaitAttach", "awaitLogEnable", "awaitRuntimeEnable"}
    /\ CapabilitySettles(r, "reject")

C19_AttachFailureReported ==
    [][ \A r \in ReqIds :
          AttachRejectedStep(r)
          => /\ reqPc'[r] = "idle"
             /\ IsOpen(socket, readyState) => Len(sent') = 1
             /\ \A i \in 1..Len(sent') :
                   /\ IsResponse(sent'[i])
                   /\ sent'[i].envelope.requestId = r
                   /\ ~sent'[i].envelope.success
                   /\ sent'[i].envelope.error[1] = "Failed to attach debugger: " ]_vars

\* the failure response of a getConsoleLogs request whose attach was
\* rejected has been transmitted
C19_Witness ==
    /\ Len(sent) = 1
    /\ IsResponse(sent[1])
    /\ ~sent[1].envelope.success
    /\ sent[1].envelope.error = <<"Failed to attach debugger: ", <<"debugger rejected">> >>

(* ---------------------------------------------------------------------- *)
(* C20: a getConsoleLogs request with level error, warning or info        *)
(* returns exactly the records of the tab's ring whose level is in the    *)
(* group of that level ({error}, {warning}, {info, log}), in the order of *)
(* the ring, whatever other records the ring holds; with level all or     *)
(* without a level it returns the whole ring.                             *)
(* ---------------------------------------------------------------------- *)
C20_LevelFilter ==
    [][ \A r \in ReqIds :
          (FinishStep(r) /\ reqMsg[r].action = "getConsoleLogs")
          => \A i \in 1..Len(sent') :
                sent'[i].envelope.success
                => LET data == sent'[i].envelope.data
                       ring == IF data.tabId \in DOMAIN consoleLogs
                               THEN consoleLogs[data.tabId] ELSE <<>>
                       level == reqMsg[r].params.level
                   IN data.logs =
                        CASE level = "error" ->
                                SelectSeq(ring, LAMBDA e : e.level = "error")
                          [] level = "warning" ->
                                SelectSeq(ring, LAMBDA e : e.level = "warning")
                          [] level = "info" ->
                                SelectSeq(ring, LAMBDA e : e.level \in {"info", "log"})
                          [] OTHER -> ring ]_vars

\* a read with level info has returned the one console.log record of a
\* ring that holds a record of another group as well
C20_Witness ==
    /\ Len(sent) = 1
    /\ IsResponse(sent[1])
    /\ sent[1].envelope.success
    /\ Len(sent[1].envelope.data.logs) = 1
    /\ sent[1].envelope.data.logs[1].level = "log"
    /\ \E t \in DOMAIN consoleLogs :
          /\ t = sent[1].envelope.data.tabId
          /\ Len(consoleLogs[t]) = 2
          /\ consoleLogs[t][1].level = "error"

(* ---------------------------------------------------------------------- *)
(* C21: a successful getConsoleLogs request with clear = true returns the *)
(* records of the tab's ring as they were before the clear, restricted to *)
(* the level group when a level other than all is given, and leaves the   *)
(* ring empty; a read that finds the ring empty returns no records.       *)
(* ---------------------------------------------------------------------- *)
RingBefore(data) ==
    IF data.tabId \in DOMAIN consoleLogs THEN consoleLogs[data.tabId] ELSE <<>>

ClearReadStep(r) ==
    /\ FinishStep(r)
    /\ reqMsg[r].action = "getConsoleLogs"
    /\ reqMsg[r].params.clear

C21_ClearAfterFilteredRead ==
    [][ \A r \in ReqIds :
          (FinishStep(r) /\ reqMsg[r].action = "getConsoleLogs")
          => \A i \in 1..Len(sent') :
                sent'[i].envelope.success
                => LET data == sent'[i].envelope.data
                       level == reqMsg[r].params.level
                       ring == RingBefore(data)
                   IN /\ reqMsg[r].params.clear
                         => /\ data.logs =
                                 IF level \in {"error", "warning", "info"}
                                 THEN SelectSeq(ring,
                                        LAMBDA e : e.level \in LevelGroup(level))
                                 ELSE ring
                            /\ data.tabId \in DOMAIN consoleLogs'
                            /\ consoleLogs'[data.tabId] = <<>>
                      /\ ring = <<>> => data.logs = <<>> ]_vars

\* the claim as stated: the read with clear = true returns the whole ring
C21_ClearReturnsWholeRing ==
    [][ \A r \in ReqIds :
          ClearReadStep(r)
          => \A i \in 1..Len(sent') :
                sent'[i].envelope.success
                => /\ sent'[i].envelope.data.logs = RingBefore(sent'[i].envelope.data)
                   /\ consoleLogs'[sent'[i].envelope.data.tabId] = <<>> ]_vars

\* a read with clear = true has returned records and the ring is empty
C21_Witness ==
    /\ Len(sent) = 1
    /\ IsResponse(sent[1])
    /\ sent[1].envelope.success
    /\ Len(sent[1].envelope.data.logs) > 0
    /\ sent[1].envelope.data.tabId \in DOMAIN consoleLogs
    /\ consoleLogs[sent[1].envelope.data.tabId] = <<>>

(* ---------------------------------------------------------------------- *)
(* C28: the close event of a socket that is not the one `socket` refers   *)
(* to leaves `socket` unchanged, and a terminal message is refused only   *)
(* when the socket `socket` refers to is not open.                        *)
(* ---------------------------------------------------------------------- *)
C28_SupersededCloseKeepsSocket ==
    [][ \A s \in SocketIds, failed \in BOOLEAN :
          (SocketClose(s, failed) /\ s # socket) => socket' = socket ]_vars

(* ---------------------------------------------------------------------- *)
(* C29: a connection:status message with status connected is emitted only *)
(* in a step after which `socket` is open, and one with status            *)
(* disconnected only in a step after which it is not, the message of the  *)
(* timer of a ping included.                                              *)
(* ---------------------------------------------------------------------- *)
C29_BroadcastAgreesWithSocket ==
    [][ /\ Broadcast(emitted', "connected") => IsOpen(socket', readyState')
        /\ Broadcast(emitted', "disconnected") => ~IsOpen(socket', readyState') ]_vars

(* ---------------------------------------------------------------------- *)
(* C30: at most one reconnect timer is pending in every reachable state.  *)
(* ---------------------------------------------------------------------- *)
C30_OneReconnectTimer == reconnectTimers <= 1

(* ---------------------------------------------------------------------- *)
(* C22: a modifyDom request whose action requires an argument that is     *)
(* missing (attributeName for setAttribute and removeAttribute; value for *)
(* addClass, removeClass, insertBefore and insertAfter) and whose         *)
(* injected function ran ends in a failure response whose error names the *)
(* missing parameter, and modifies no element of the page, with all false *)
(* and with all true.                                                     *)
(* ---------------------------------------------------------------------- *)
RequiredParameter(action) ==
    CASE action \in {"setAttribute", "removeAttribute"} -> "attributeName"
      [] action \in {"addClass", "removeClass", "insertBefore", "insertAfter"} -> "value"
      [] OTHER -> "(none)"

MissingRequiredArgument(params) ==
    \/ RequiredParameter(params.action) = "attributeName" /\ ~params.attributeName
    \/ RequiredParameter(params.action) = "value" /\ ~params.value

\* the parameter the error text of a response says is required
ParameterNamed(error) ==
    CASE error[1] = "attributeName required for " -> "attributeName"
      [] error[1] \in {"value (class name) required for ",
                       "value (HTML content) required for "} -> "value"
      [] OTHER -> "(none)"

MissingArgumentStep(r) ==
    /\ FinishStep(r)
    /\ reqMsg[r].action = "modifyDom"
    /\ MissingRequiredArgument(reqMsg[r].params)

C22_MissingArgumentNamed ==
    [][ \A r \in ReqIds :
          (MissingArgumentStep(r) /\ domEffect'.ran)
          => /\ Len(sent') = 1
             /\ ~sent'[1].envelope.success
             /\ domEffect'.modified = {}
             /\ ParameterNamed(sent'[1].envelope.error)
                  = RequiredParameter(reqMsg[r].params.action) ]_vars

(* ---------------------------------------------------------------------- *)
(* C23: the modifiedCount of a successful modifyDom response is the       *)
(* number of elements the injected function modified: the first match     *)
(* alone when all is false, every match when all is true; when the        *)
(* selector matches no element the response is a failure.                 *)
(* ---------------------------------------------------------------------- *)
C23_ModifiedCount ==
    [][ \A r \in ReqIds :
          (FinishStep(r) /\ reqMsg[r].action = "modifyDom")
          => /\ Len(sent') = 1
             /\ sent'[1].envelope.success
                => /\ domEffect'.ran
                   /\ sent'[1].envelope.data.modifiedCount
                        = Cardinality(domEffect'.modified)
                   /\ domEffect'.modified =
                        IF reqMsg[r].params.all
                        THEN 1..domEffect'.matched ELSE {1}
                   /\ domEffect'.matched > 0
             /\ (domEffect'.ran /\ domEffect'.matched = 0)
                => ~sent'[1].envelope.success ]_vars

\* a request with all false in a page with several matches has modified
\* the first match and reports modifiedCount 1
C23_Witness ==
    /\ domEffect.ran
    /\ domEffect.matched > 1
    /\ domEffect.modified = {1}
    /\ Len(sent) = 1
    /\ IsResponse(sent[1])
    /\ sent[1].envelope.success
    /\ sent[1].envelope.data.modifiedCount = 1

(* ---------------------------------------------------------------------- *)
(* C24: a terminal:output envelope that arrives on a socket is broadcast  *)
(* to the extension in the task of its arrival, once and as it arrived,   *)
(* whatever the handlers of browser:requests in flight are waiting for;   *)
(* the task touches no handler.                                           *)
(* ---------------------------------------------------------------------- *)
C24_OutputForwardedOnArrival ==
    [][ \A s \in SocketIds, data \in TerminalData :
          TerminalOutput(s, data)
          => /\ emitted' = <<TerminalOutputMessage(data)>>
             /\ sent' = <<>>
             /\ UNCHANGED reqVars ]_vars

\* terminal output has just been forwarded while a handler awaits
C24_Witness ==
    /\ inbound.parses
    /\ inbound.message.type = "terminal:output"
    /\ emitted = <<inbound.message>>
    /\ \E r \in ReqIds : reqPc[r] \in AwaitPcs

(* ---------------------------------------------------------------------- *)
(* C25: with several browser:requests in flight, the task in which the    *)
(* handler of request r ends transmits exactly one browser:response, with *)
(* the requestId of r and the outcome of the action of r, and leaves the  *)
(* handlers of the other requests where they are; a response is           *)
(* transmitted in no other task.                                          *)
(* ---------------------------------------------------------------------- *)
SuccessData(action) ==
    CASE action = "getDom" -> [html |-> "dom"]
      [] action = "getSelection" -> [text |-> "selection"]
      [] action = "screenshot" -> [dataUrl |-> "png"]

FailureTexts(action) ==
    CASE action = "getDom" -> {"No active tab found", "Cannot access restricted page: ",
                               "executeScript rejected", "Element not found: "}
      [] action = "getSelection" -> {"No active tab found",
                                     "Cannot access restricted page: ",
                                     "executeScript rejected"}
      [] action = "screenshot" -> {"captureVisibleTab rejected"}

C25_OwnResponse ==
    [][ /\ \A r \in ReqIds :
             FinishStep(r)
             => /\ Len(sent') = 1
                /\ IsResponse(sent'[1])
                /\ sent'[1].envelope.requestId = r
                /\ sent'[1].envelope.requestId = reqMsg[r].requestId
                /\ IF sent'[1].envelope.success
                   THEN sent'[1].envelope.data = SuccessData(reqMsg[r].action)
                   ELSE sent'[1].envelope.error[1] \in FailureTexts(reqMsg[r].action)
                /\ \A q \in ReqIds \ {r} :
                      /\ reqPc'[q] = reqPc[q]
                      /\ reqMsg'[q] = reqMsg[q]
        /\ sent' # <<>> => \E r \in ReqIds : FinishStep(r) ]_vars

\* the response of request 2 has just been transmitted while the handler
\* of request 1, which has another action, awaits
C25_Witness ==
    /\ Len(sent) = 1
    /\ IsResponse(sent[1])
    /\ sent[1].envelope.requestId = 2
    /\ sent[1].envelope.success
    /\ sent[1].envelope.data = [dataUrl |-> "png"]
    /\ reqPc[1] = "awaitScript"
    /\ reqMsg[1].action = "getDom"

(* ---------------------------------------------------------------------- *)
(* C26: a WebSocket message JSON.parse rejects, or whose type is neither  *)
(* terminal:output nor browser:request, has no effect: the socket stays   *)
(* open, `socket`, the attempt counter, the reconnect timers, the         *)
(* sessions, the rings and the handlers are unchanged, nothing is         *)
(* broadcast and nothing is sent to the backend.                          *)
(* ---------------------------------------------------------------------- *)
C26_OtherMessageAbsorbed ==
    [][ \A s \in SocketIds, parses \in BOOLEAN, type \in OtherTypes :
          OtherMessage(s, parses, type)
          => /\ readyState'[s] = "OPEN"
             /\ UNCHANGED <<connVars, attachedTabs, consoleLogs, reqVars>>
             /\ emitted' = <<>>
             /\ sent' = <<>> ]_vars

\* a message JSON.parse rejects has just been handled on the open socket
C26_Witness ==
    /\ inbound = Unparseable
    /\ IsOpen(socket, readyState)
    /\ emitted = <<>>
    /\ sent = <<>>
    /\ uiReply = <<>>

(* ---------------------------------------------------------------------- *)
(* C27: once the backend accepts connections, and goes on accepting them, *)
(* `socket` is eventually an open socket, with the timers and the         *)
(* keep-alive interval firing and no message of the side panel.           *)
(* ---------------------------------------------------------------------- *)
C27_EventuallyConnected == backend.up ~> IsOpen(socket, readyState)

(* ---------------------------------------------------------------------- *)
(* C31: the browser:response of a request is transmitted only on the      *)
(* WebSocket whose message event delivered the request, and not once that *)
(* socket has closed.                                                     *)
(* ---------------------------------------------------------------------- *)
C31_ResponseOnItsConnection ==
    [][ \A r \in ReqIds :
          FinishStep(r)
          => \A i \in 1..Len(sent') :
                IsResponse(sent'[i])
                => /\ sent'[i].via = reqSocket[r].socket
                   /\ ~reqSocket[r].closed ]_vars

(* ---------------------------------------------------------------------- *)
(* C32: when chrome.debugger.attach, Log.enable or Runtime.enable of a    *)
(* getConsoleLogs request rejects, the tab of the request is not in       *)
(* attachedTabs afterwards.                                               *)
(* ---------------------------------------------------------------------- *)
C32_FailedAttachLeavesNoSession ==
    [][ \A r \in ReqIds :
          AttachRejectedStep(r) => reqTab[r].id \notin attachedTabs' ]_vars

====
